---------------------------- MODULE Spec2Model ----------------------------
(***************************************************************************)
(* Model of hunyuan/aigc_extension/extension.py (class MyExtension).       *)
(*                                                                         *)
(* Two execution contexts are modelled:                                    *)
(*   - the UI thread: button callbacks and the per-frame update            *)
(*     subscription process_ui_updates (snapshot, clear, process);         *)
(*   - the generation worker thread started by _generate_3d_model, which   *)
(*     runs _generate_3d_model_async / _poll_generation_status /           *)
(*     _save_generated_model.                                              *)
(* Statements of the worker that touch shared fields are separate steps,   *)
(* so every interleaving of the two threads at statement granularity is    *)
(* explored.  A UI callback runs to completion on the UI thread; the       *)
(* frame callback is split at the points where the worker can interleave   *)
(* with its accesses to _pending_ui_updates.                               *)
(*                                                                         *)
(* Paths are modelled by small integers: an uploaded image "name_k.png"    *)
(* is the number k (k = 1 is the unsuffixed name), a generated model file  *)
(* "model_{uid}_{ts}.glb" is the number of the job that produced it.       *)
(* Status messages are modelled by their format string.                    *)
(***************************************************************************)
EXTENDS Integers, Sequences, FiniteSets, TLC

\* ---------------------------------------------------------------- bounds
\* number of generation jobs the user may start in one behaviour
MaxJobs == 2
\* number of image files the images directory may hold
MaxImages == 1
\* number of non-terminal answers the server gives a job in Spec
\* (PollSpec lifts this restriction up to the program's poll budget)
MaxPending == 2
\* number of nodes on the stage beyond which the user starts no import by
\* hand
MaxPrims == 2
\* number of mesh prims under an imported node
MaxMeshes == 2
\* heights 1..MaxHeight grid steps are measured and asked for, besides the
\* heights around one metre
MaxHeight == 15
\* number of times the scale of the selected prim is written
MaxScalings == 1
\* number of entries the image list and the images directory may hold in
\* ImageSpec
MaxUploads == 3

\* ------------------------------------------------------ program constants
\* _poll_generation_status: max_attempts = 120
max_attempts == 120

\* a Python float has a significand of 53 bits (binary64): the leading
\* bit and Groups groups of GroupBits bits
GroupBits == 13
Groups == 4
Precision == 1 + Groups * GroupBits
Group == 8192
\* heights are whole numbers of grid steps of 2^-11 m, which are floats
\* without rounding; all heights below are in grid steps
GridPerMetre == 2048
\* _scale_prim_to_height: tolerance=0.001 (metres); a difference of two
\* grid heights is at most 0.001 m exactly when it is at most 2 steps
\* (2/2048 < 0.001 < 3/2048), and the float subtraction of line 1677 is
\* exact on such heights
tolerance == 2

NoImage == 0

\* the path of a GLB file outside the models directory (the path typed
\* into the "Load External GLB" window; on_confirm requires it to exist)
ExternalGlb == 0

Jobs == 1..MaxJobs
ImagePaths == 1..MaxImages

VARIABLES
    \* ---- fields of MyExtension
    uploaded_images,      \* self._uploaded_images: sequence of image paths
    selected_image_path,  \* self._selected_image_path (NoImage = None)
    generated_models,     \* self._generated_models: sequence of model paths
    pending_ui_updates,   \* self._pending_ui_updates: sequence of events
    auto_load_to_stage,   \* self._auto_load_to_stage
    keep_glb_files,       \* self._keep_glb_files
    apply_deformable_physics, \* self._apply_deformable_physics
    apply_rigid_body_physics, \* self._apply_rigid_body_physics
    generate_btn_enabled, \* self._generate_btn.enabled
    status_text,          \* self._status_label.text
    image_stack,          \* rows of self._image_stack (one per listed image)
    models_stack,         \* rows of self._models_stack (one per listed model)
    \* ---- environment the program acts on
    image_files,          \* files present in self._images_dir
    model_files,          \* files present in self._models_dir
    stage_open,           \* omni.usd.get_context().get_stage() is not None
    prims,                \* valid prims of the stage: prim path -> what the
                          \* program has written on the prim
    physx_available,      \* PHYSX_AVAILABLE (set when the module is loaded)
    \* ---- the worker thread (locals of _generate_3d_model_async and callees)
    \* (one thread per started job; job j is the j-th thread started and
    \*  its uid and model file are named j)
    w_pc,                 \* per job: position of its thread; "none" = not
                          \* started, "done" = thread finished
    attempt,              \* per job: local attempt of _poll_generation_status
    model_base64,         \* per job: local model_base64: "none", "bad", "ok"
    \* ---- the frame callback process_ui_updates
    t_pc,                 \* "idle", "clear" (snapshot taken), "process"
    updates_to_process,   \* local updates_to_process
    \* ---- observers
    jobs_started,         \* number of worker threads started so far
    job_state,            \* per job: Idle/Submitting/Polling/Completed/Failed
    \* (the records of what a thread sent and received are kept while the
    \*  thread lives and dropped with it; job_state, pushed and dispatched
    \*  are kept for good)
    polls,                \* per job: number of status requests sent
    sends,                \* per job: number of submit requests sent
    pushed,               \* per job: number of events appended to the queue
    dispatched,           \* per job: number of events handed to a handler
    job_msg,              \* per job: the status message its thread ended with
    submit_answer,        \* per job: the answer to its submit request
    poll_answer,          \* per job: the answer to its last status request
    payload,              \* per job: the model data of a 'completed' answer
    \* ---- one call of the physics attachment on an imported node
    attach,               \* what the host holds under the node (meshes, the
                          \* meshes on which an attachment raises) and what
                          \* each of the two attachment functions returned
    \* ---- the scale panel
    selected_prim,        \* the prim selected in the viewport: its bounding
                          \* box, its scale operation and the writes of it
    scale_result_label,   \* self._scale_result_label.text
    scale_result          \* what _scale_prim_to_height returned last

vars == <<uploaded_images, selected_image_path, generated_models,
          pending_ui_updates, auto_load_to_stage, keep_glb_files,
          generate_btn_enabled, status_text, image_stack, models_stack,
          image_files, model_files, stage_open, prims, physx_available,
          apply_deformable_physics, apply_rigid_body_physics,
          w_pc, attempt, model_base64, t_pc, updates_to_process,
          jobs_started, job_state, polls, sends, pushed, dispatched,
          job_msg, submit_answer, poll_answer, payload,
          attach, selected_prim, scale_result_label, scale_result>>

uiVars == <<uploaded_images, selected_image_path, image_stack, image_files>>
sceneVars == <<models_stack, model_files, stage_open, prims,
               physx_available>>
workerVars == <<w_pc, attempt, model_base64>>
tickVars == <<t_pc, updates_to_process>>
obsVars == <<jobs_started, job_state, polls, sends, pushed, dispatched,
             job_msg, submit_answer, poll_answer, payload>>
cfgVars == <<auto_load_to_stage, keep_glb_files,
             apply_deformable_physics, apply_rigid_body_physics>>
callVars == <<attach, selected_prim, scale_result_label, scale_result>>

\* ---------------------------------------------------------------- helpers
Range(s) == {s[i] : i \in 1..Len(s)}

\* list.remove(x): drops the first occurrence of x
RECURSIVE ListRemove(_, _)
ListRemove(s, x) ==
    IF s = <<>> THEN <<>>
    ELSE IF Head(s) = x THEN Tail(s)
    ELSE <<Head(s)>> \o ListRemove(Tail(s), x)

\* the rows rebuilt by a refresh: listed paths whose file exists, in order
RECURSIVE Existing(_, _)
Existing(s, files) ==
    IF s = <<>> THEN <<>>
    ELSE IF Head(s) \in files THEN <<Head(s)>> \o Existing(Tail(s), files)
    ELSE Existing(Tail(s), files)

\* ---- initial values of the call records
NoResult == [called |-> FALSE]

\* before any attachment: no mesh under the node, no function called
NoPhysicsCall ==
    [meshes |-> 0, collider_fails |-> {}, deformable_fails |-> {},
     deformable |-> NoResult, rigid |-> NoResult]

\* the floats 0.0 and 1.0 (floats are described with the scale functions)
Zero == [e |-> 0, m |-> <<0, 0, 0, 0, 0>>]
One == [e |-> 0, m |-> <<1, 0, 0, 0, 0>>]

\* Gf.Vec3d(1.0, 1.0, 1.0), the scale of a prim without a scale operation
UnitScale == <<One, One, One>>

\* a prim without a scale operation in its transform stack
NoScaleOp == [exists |-> FALSE, value |-> UnitScale]

\* a prim with nothing to measure under it: its bounding box has no
\* extents and the program never looks at its scale; writes counts the
\* calls of scale_op.Set on a prim
EmptyPrim == [bbox |-> "empty", writes |-> 0]

\* _scale_prim_to_height has not been called
NoScaleCall == [returned |-> "not called"]

Init ==
    /\ attach = NoPhysicsCall
    /\ selected_prim = EmptyPrim
    /\ scale_result_label = ""
    /\ scale_result = NoScaleCall
    /\ uploaded_images = <<>>
    /\ selected_image_path = NoImage
    /\ generated_models = <<>>
    /\ pending_ui_updates = <<>>
    /\ auto_load_to_stage = TRUE
    /\ keep_glb_files = FALSE
    /\ apply_deformable_physics = FALSE
    /\ apply_rigid_body_physics = FALSE
    /\ generate_btn_enabled = TRUE
    /\ status_text = "Ready"
    /\ image_stack = <<>>
    /\ models_stack = <<>>
    /\ image_files = {}
    /\ model_files = {}
    /\ stage_open \in BOOLEAN
    /\ prims = <<>>
    /\ physx_available = TRUE
    /\ w_pc = [j \in Jobs |-> "none"]
    /\ attempt = [j \in Jobs |-> 0]
    /\ model_base64 = [j \in Jobs |-> "none"]
    /\ t_pc = "idle"
    /\ updates_to_process = <<>>
    /\ jobs_started = 0
    /\ job_state = [j \in Jobs |-> "Idle"]
    /\ polls = [j \in Jobs |-> 0]
    /\ sends = [j \in Jobs |-> 0]
    /\ pushed = [j \in Jobs |-> 0]
    /\ dispatched = [j \in Jobs |-> 0]
    /\ job_msg = [j \in Jobs |-> "none"]
    /\ submit_answer = [j \in Jobs |-> "none"]
    /\ poll_answer = [j \in Jobs |-> "none"]
    /\ payload = [j \in Jobs |-> "none"]

\* ------------------------------------------------------------ UI thread
\* A callback of the UI thread runs only when the UI thread is not inside
\* the frame callback.
UiFree == t_pc = "idle"

\* _update_status(message, color)
UpdateStatus(message) == status_text' = message

\* the candidate counter chosen by the loop of _upload_single_image:
\* the least counter whose file name is not present in the directory
UniqueImageName(files) ==
    CHOOSE c \in 1..(Cardinality(files) + 1) :
        /\ c \notin files
        /\ \A d \in 1..(c - 1) : d \in files

\* _upload_single_image -> _add_image_to_ui, while the directory and the
\* list hold fewer than max_images entries
UploadSingleImage(max_images) ==
    /\ UNCHANGED callVars
    /\ UiFree
    /\ Cardinality(image_files) < max_images
    /\ Len(uploaded_images) < max_images
    /\ LET dest_path == UniqueImageName(image_files) IN
        /\ image_files' = image_files \cup {dest_path}
        /\ uploaded_images' = Append(uploaded_images, dest_path)
        /\ image_stack' = Append(image_stack, dest_path)
    /\ UNCHANGED <<selected_image_path, generated_models, pending_ui_updates,
                   generate_btn_enabled, status_text>>
    /\ UNCHANGED <<sceneVars, workerVars, tickVars, obsVars, cfgVars>>

\* _upload_image -> _upload_single_image
UploadImage == UploadSingleImage(MaxImages)

\* _add_image_to_ui.select_for_generation (button "Select" of a row)
SelectForGeneration(image_path) ==
    /\ UNCHANGED callVars
    /\ UiFree
    /\ image_path \in Range(image_stack)
    /\ selected_image_path' = image_path
    /\ UNCHANGED <<uploaded_images, image_stack, image_files,
                   generated_models, pending_ui_updates,
                   generate_btn_enabled, status_text>>
    /\ UNCHANGED <<sceneVars, workerVars, tickVars, obsVars, cfgVars>>

\* _add_image_to_ui.remove_image (button "Delete" of a row), with the
\* _refresh_image_list it ends with
RemoveImage(image_path) ==
    /\ UNCHANGED callVars
    /\ UiFree
    /\ image_path \in Range(image_stack)
    /\ image_files' = image_files \ {image_path}
    /\ uploaded_images' = ListRemove(uploaded_images, image_path)
    /\ selected_image_path' =
          IF selected_image_path = image_path THEN NoImage
          ELSE selected_image_path
    /\ image_stack' = Existing(uploaded_images', image_files')
    /\ UNCHANGED <<generated_models, pending_ui_updates,
                   generate_btn_enabled, status_text>>
    /\ UNCHANGED <<sceneVars, workerVars, tickVars, obsVars, cfgVars>>

\* the files the loop of _clear_all_images has deleted before position k
\* of the list
Deleted(k) == {uploaded_images[i] : i \in 1..(k - 1)}

\* _clear_all_images; os.remove raises on no file (failed = 0) or, where
\* the file system may refuse a deletion, on the file at position failed
\* of the list, which ends the loop and leaves the list and the rows as
\* they are (lines 649-651)
ClearAllImages(may_refuse) ==
    /\ UNCHANGED callVars
    /\ UiFree
    /\ uploaded_images # <<>>
    /\ \E failed \in IF may_refuse THEN 0..Len(uploaded_images) ELSE {0} :
          IF failed = 0
          THEN /\ image_files' = image_files \ Range(uploaded_images)
               /\ uploaded_images' = <<>>
               /\ image_stack' = <<>>
          ELSE /\ uploaded_images[failed] \in image_files \ Deleted(failed)
               /\ image_files' = image_files \ Deleted(failed)
               /\ UNCHANGED <<uploaded_images, image_stack>>
    /\ UNCHANGED <<selected_image_path, generated_models, pending_ui_updates,
                   generate_btn_enabled, status_text>>
    /\ UNCHANGED <<sceneVars, workerVars, tickVars, obsVars, cfgVars>>

\* _on_auto_load_changed
OnAutoLoadChanged ==
    /\ UNCHANGED callVars
    /\ UiFree
    /\ auto_load_to_stage' = ~auto_load_to_stage
    /\ UNCHANGED <<keep_glb_files, apply_deformable_physics,
                   apply_rigid_body_physics, uploaded_images, selected_image_path,
                   image_stack, image_files, generated_models,
                   pending_ui_updates, generate_btn_enabled, status_text>>
    /\ UNCHANGED <<sceneVars, workerVars, tickVars, obsVars>>

\* _on_keep_glb_changed
OnKeepGlbChanged ==
    /\ UNCHANGED callVars
    /\ UiFree
    /\ keep_glb_files' = ~keep_glb_files
    /\ UNCHANGED <<auto_load_to_stage, apply_deformable_physics,
                   apply_rigid_body_physics, uploaded_images, selected_image_path,
                   image_stack, image_files, generated_models,
                   pending_ui_updates, generate_btn_enabled, status_text>>
    /\ UNCHANGED <<sceneVars, workerVars, tickVars, obsVars>>

\* the thread started by _generate_3d_model is the next job
NewJob == jobs_started + 1

\* variant of _generate_3d_model that omits line 709 (the button stays
\* enabled while the worker runs)
Generate3dModel_NoDisable ==
    /\ UNCHANGED callVars
    /\ UiFree
    /\ generate_btn_enabled
    /\ IF selected_image_path = NoImage
       THEN /\ UpdateStatus("No image selected for generation")
            /\ UNCHANGED <<generate_btn_enabled, workerVars, obsVars>>
       ELSE IF selected_image_path \notin image_files
       THEN /\ UpdateStatus("Selected image file not found")
            /\ UNCHANGED <<generate_btn_enabled, workerVars, obsVars>>
       ELSE /\ jobs_started < MaxJobs
            /\ w_pc' = [w_pc EXCEPT ![NewJob] = "start"]
            /\ jobs_started' = NewJob
            /\ job_state' = [job_state EXCEPT ![NewJob] = "Submitting"]
            /\ UNCHANGED <<generate_btn_enabled, status_text, attempt,
                           model_base64, polls, sends, pushed, dispatched,
                           job_msg, submit_answer, poll_answer, payload>>
    /\ UNCHANGED <<uiVars, generated_models, pending_ui_updates>>
    /\ UNCHANGED <<sceneVars, tickVars, cfgVars>>

\* variant of _generate_3d_model that omits the os.path.exists check of
\* lines 704-706
Generate3dModel_NoExistsCheck ==
    /\ UNCHANGED callVars
    /\ UiFree
    /\ generate_btn_enabled
    /\ IF selected_image_path = NoImage
       THEN /\ UpdateStatus("No image selected for generation")
            /\ UNCHANGED <<generate_btn_enabled, workerVars, obsVars>>
       ELSE /\ jobs_started < MaxJobs
            /\ generate_btn_enabled' = FALSE
            /\ w_pc' = [w_pc EXCEPT ![NewJob] = "start"]
            /\ jobs_started' = NewJob
            /\ job_state' = [job_state EXCEPT ![NewJob] = "Submitting"]
            /\ UNCHANGED <<status_text, attempt, model_base64, polls, sends,
                           pushed, dispatched, job_msg, submit_answer,
                           poll_answer, payload>>
    /\ UNCHANGED <<uiVars, generated_models, pending_ui_updates>>
    /\ UNCHANGED <<sceneVars, tickVars, cfgVars>>

\* _generate_3d_model (clicked_fn of the "Generate 3D Model" button; the
\* host delivers no click to a disabled button)
Generate3dModel ==
    /\ UNCHANGED callVars
    /\ UiFree
    /\ generate_btn_enabled
    /\ IF selected_image_path = NoImage
       THEN /\ UpdateStatus("No image selected for generation")
            /\ UNCHANGED <<generate_btn_enabled, workerVars, obsVars>>
       ELSE IF selected_image_path \notin image_files
       THEN /\ UpdateStatus("Selected image file not found")
            /\ UNCHANGED <<generate_btn_enabled, workerVars, obsVars>>
       ELSE /\ jobs_started < MaxJobs
            /\ generate_btn_enabled' = FALSE
            /\ w_pc' = [w_pc EXCEPT ![NewJob] = "start"]
            /\ jobs_started' = NewJob
            /\ job_state' = [job_state EXCEPT ![NewJob] = "Submitting"]
            /\ UNCHANGED <<status_text, attempt, model_base64, polls, sends,
                           pushed, dispatched, job_msg, submit_answer,
                           poll_answer, payload>>
    /\ UNCHANGED <<uiVars, generated_models, pending_ui_updates>>
    /\ UNCHANGED <<sceneVars, tickVars, cfgVars>>

\* ------------------------------------------------------ import to the stage
\* prim paths are sequences: <<b>> is "/World/{b}" and appending k gives
\* "/World/{b}_{k}", so that the k-th candidate of one name is the same
\* path as a longer name.  Lines 971-972: base_name of a generated model
BaseName(model_path) == <<model_path>>

\* the names a user may type into the "Load External GLB" window: a fresh
\* name, the base name of a generated model, and that name with a suffix
ExternalNames == {<<ExternalGlb>>, <<1>>, <<1, 1>>}

\* variant of the path choice without the loop of lines 977-979
UniquePrimPath_NoLoop(base_name, valid) == base_name

\* lines 972-979 and 1127-1134: the first of base, base_1, base_2, ...
\* that is not a valid prim
UniquePrimPath(base_name, valid) ==
    LET Candidate(k) == IF k = 0 THEN base_name ELSE base_name \o <<k>>
        counter == CHOOSE k \in 0..Cardinality(valid) :
                      /\ Candidate(k) \notin valid
                      /\ \A d \in 0..(k - 1) : Candidate(d) \in valid
    IN Candidate(counter)

\* what the host does during one import: whether DefinePrim returns a
\* valid prim, how many mesh prims the referenced file puts under the node,
\* the meshes on which an attachment call raises, and whether os.remove
\* succeeds.  Only the calls the import makes have an outcome: the meshes
\* are looked up by the physics steps, os.remove runs unless the file is kept
HostOutcomes ==
    LET physics == apply_deformable_physics \/ apply_rigid_body_physics
        Meshes(m) == 1..m
    IN UNION {[defined : BOOLEAN, meshes : {m},
               collider_fails :
                  IF apply_rigid_body_physics
                  THEN SUBSET Meshes(m) ELSE {{}},
               deformable_fails :
                  IF apply_deformable_physics
                  THEN SUBSET Meshes(m) ELSE {{}},
               removed : IF keep_glb_files THEN {TRUE} ELSE BOOLEAN] :
              m \in IF physics THEN 0..MaxMeshes ELSE {0}}

\* _find_mesh_prims: the mesh prims under the node, in traversal order
FindMeshPrims(meshes) == [i \in 1..meshes |-> i]

NoAttachment == [attached |-> {}, attempted |-> 0, success_count |-> 0]

\* variant of the collider loop that leaves the loop at the first failure
RECURSIVE ColliderLoop_StopsAtFailure(_, _, _)
ColliderLoop_StopsAtFailure(mesh_prims, fails, acc) ==
    IF mesh_prims = <<>> THEN acc
    ELSE IF Head(mesh_prims) \in fails
    THEN [acc EXCEPT !.attempted = @ + 1]
    ELSE ColliderLoop_StopsAtFailure(Tail(mesh_prims), fails,
            [acc EXCEPT !.attempted = @ + 1,
                        !.attached = @ \cup {Head(mesh_prims)},
                        !.success_count = @ + 1])

\* _apply_rigid_body_collider, lines 1297-1319: the loop over mesh_prims;
\* a mesh whose attachment raises is logged and skipped
RECURSIVE ColliderLoop(_, _, _)
ColliderLoop(mesh_prims, fails, acc) ==
    IF mesh_prims = <<>> THEN acc
    ELSE IF Head(mesh_prims) \in fails
    THEN ColliderLoop(Tail(mesh_prims), fails,
            [acc EXCEPT !.attempted = @ + 1])
    ELSE ColliderLoop(Tail(mesh_prims), fails,
            [acc EXCEPT !.attempted = @ + 1,
                        !.attached = @ \cup {Head(mesh_prims)},
                        !.success_count = @ + 1])

\* _apply_deformable_physics_to_prim, lines 1365-1409: the loop over
\* mesh_prims
RECURSIVE DeformableLoop(_, _, _)
DeformableLoop(mesh_prims, fails, acc) ==
    IF mesh_prims = <<>> THEN acc
    ELSE IF Head(mesh_prims) \in fails
    THEN DeformableLoop(Tail(mesh_prims), fails,
            [acc EXCEPT !.attempted = @ + 1])
    ELSE DeformableLoop(Tail(mesh_prims), fails,
            [acc EXCEPT !.attempted = @ + 1,
                        !.attached = @ \cup {Head(mesh_prims)},
                        !.success_count = @ + 1])

\* the line logged after a loop when success_count > 0:
\* "... to {success_count}/{len(mesh_prims)} meshes"
Report(loop, mesh_prims) ==
    IF loop.success_count > 0
    THEN <<loop.success_count, Len(mesh_prims)>>
    ELSE <<>>

\* _apply_rigid_body_collider(prim_path_str, model_name) on a valid node of
\* an open stage: RigidBodyAPI and MassAPI on the root, a collider on each
\* mesh; it returns True also when no mesh got its collider
ApplyRigidBodyCollider(meshes, fails) ==
    LET mesh_prims == FindMeshPrims(meshes)
        loop == ColliderLoop(mesh_prims, fails, NoAttachment)
    IN [rigid_body |-> TRUE, colliders |-> loop.attached,
        attempted |-> loop.attempted, success_count |-> loop.success_count,
        report |-> Report(loop, mesh_prims), result |-> TRUE]

\* _apply_deformable_physics_to_prim(prim_path_str, model_name) on a valid
\* node of an open stage
ApplyDeformablePhysicsToPrim(available, meshes, fails) ==
    LET mesh_prims == FindMeshPrims(meshes)
        loop == DeformableLoop(mesh_prims, fails, NoAttachment)
    IN IF ~available \/ mesh_prims = <<>>
       THEN [deformables |-> {}, attempted |-> 0, success_count |-> 0,
             report |-> <<>>, result |-> FALSE]
       ELSE [deformables |-> loop.attached, attempted |-> loop.attempted,
             success_count |-> loop.success_count,
             report |-> Report(loop, mesh_prims),
             result |-> loop.success_count > 0]

\* lines 982-1045 and 1137-1200: the node an import creates: the Xform
\* prim with its reference, the identity transform, and the physics the
\* options ask for (deformable first, then rigid body): whether some mesh
\* under the node got a deformable body, and whether the node got the
\* rigid-body and mass APIs
ImportedPrim(reference, host) ==
    LET deformable == ApplyDeformablePhysicsToPrim(physx_available,
                          host.meshes, host.deformable_fails)
        rigid == ApplyRigidBodyCollider(host.meshes, host.collider_fails)
    IN [reference |-> reference, xform |-> "identity",
        deformable |-> apply_deformable_physics /\ deformable.result,
        rigid_body |-> apply_rigid_body_physics /\ rigid.rigid_body]

\* variant of _load_glb_to_stage without the check of lines 963-966
LoadGlbToStage_NoStageCheck(model_path, host) ==
    LET unchanged == [prims |-> prims, model_files |-> model_files,
                      generated_models |-> generated_models,
                      models_stack |-> models_stack]
        prim_path == UniquePrimPath(BaseName(model_path), DOMAIN prims)
        created == (prim_path :> ImportedPrim(model_path, host)) @@ prims
    IN
    IF ~host.defined
    THEN unchanged @@ [status |-> "Failed to create prim"]
    ELSE IF keep_glb_files
    THEN [unchanged EXCEPT !.prims = created]
           @@ [status |-> "Loaded to stage (file kept)"]
    ELSE IF model_path \notin model_files \/ ~host.removed
    THEN [unchanged EXCEPT !.prims = created]
           @@ [status |-> "Loaded to stage (file cleanup failed)"]
    ELSE LET files == model_files \ {model_path}
             listed == ListRemove(generated_models, model_path)
         IN [prims |-> created, model_files |-> files,
             generated_models |-> listed,
             models_stack |-> Existing(listed, files),
             status |-> "Loaded to stage and cleaned up file"]

\* variant of _load_glb_to_stage that deletes the file whatever
\* self._keep_glb_files says
LoadGlbToStage_IgnoresKeep(model_path, host) ==
    LET unchanged == [prims |-> prims, model_files |-> model_files,
                      generated_models |-> generated_models,
                      models_stack |-> models_stack]
    IN
    IF ~stage_open
    THEN unchanged @@ [status |-> "No USD stage available"]
    ELSE IF ~host.defined
    THEN unchanged @@ [status |-> "Failed to create prim"]
    ELSE LET prim_path == UniquePrimPath(BaseName(model_path), DOMAIN prims)
             created == (prim_path :> ImportedPrim(model_path, host)) @@ prims
         IN
         IF model_path \notin model_files \/ ~host.removed
         THEN [unchanged EXCEPT !.prims = created]
                @@ [status |-> "Loaded to stage (file cleanup failed)"]
         ELSE LET files == model_files \ {model_path}
                  listed == ListRemove(generated_models, model_path)
              IN [prims |-> created, model_files |-> files,
                  generated_models |-> listed,
                  models_stack |-> Existing(listed, files),
                  status |-> "Loaded to stage and cleaned up file"]

\* _load_glb_to_stage(model_path, filename), lines 956-1075, as the values
\* it leaves in the fields it writes
LoadGlbToStage(model_path, host) ==
    LET unchanged == [prims |-> prims, model_files |-> model_files,
                      generated_models |-> generated_models,
                      models_stack |-> models_stack]
    IN
    IF ~stage_open
    THEN unchanged @@ [status |-> "No USD stage available"]
    ELSE IF ~host.defined
    THEN unchanged @@ [status |-> "Failed to create prim"]
    ELSE LET prim_path == UniquePrimPath(BaseName(model_path), DOMAIN prims)
             created == (prim_path :> ImportedPrim(model_path, host)) @@ prims
         IN
         IF keep_glb_files
         THEN [unchanged EXCEPT !.prims = created]
                @@ [status |-> "Loaded to stage (file kept)"]
         ELSE IF model_path \notin model_files \/ ~host.removed
         THEN \* os.remove raises: lines 1062-1064
              [unchanged EXCEPT !.prims = created]
                @@ [status |-> "Loaded to stage (file cleanup failed)"]
         ELSE LET files == model_files \ {model_path}
                  listed == ListRemove(generated_models, model_path)
              IN [prims |-> created, model_files |-> files,
                  generated_models |-> listed,
                  \* _refresh_models_list
                  models_stack |-> Existing(listed, files),
                  status |-> "Loaded to stage and cleaned up file"]

\* _load_glb_to_stage_direct(glb_path, model_name), lines 1112-1210: the
\* import of an external file, which is never deleted
LoadGlbToStageDirect(glb_path, model_name, host) ==
    IF ~stage_open
    THEN [prims |-> prims, status |-> "No USD stage available"]
    ELSE IF ~host.defined
    THEN [prims |-> prims, status |-> "Failed to create prim"]
    ELSE LET prim_path == UniquePrimPath(model_name, DOMAIN prims)
             prim == ImportedPrim(glb_path, host)
             deformable == ApplyDeformablePhysicsToPrim(physx_available,
                               host.meshes, host.deformable_fails)
         IN [prims |-> (prim_path :> prim) @@ prims,
             status |->
                IF apply_rigid_body_physics
                THEN "Rigid body collider applied"
                ELSE IF apply_deformable_physics
                THEN IF deformable.result
                     THEN "Deformable physics applied"
                     ELSE "Deformable physics failed"
                ELSE "Successfully loaded to stage"]

\* --------------------------------------------------------- worker thread
\* a worker thread is live from thread.start() until its last statement
Live(j) == w_pc[j] \notin {"none", "done"}
LiveWorkers == {j \in Jobs : Live(j)}

\* answers of POST /send as _generate_3d_model_async distinguishes them
SubmitFailures == {"non200", "no_uid", "conn_error", "timeout", "exception"}
SubmitOutcomes == {"ok"} \cup SubmitFailures

\* status message of a failed submit (lines 745-772)
SubmitFailureStatus(r) ==
    CASE r = "non200" -> "Server error"
      [] r = "no_uid" -> "No task ID received"
      [] r = "conn_error" -> "Cannot connect to server"
      [] r = "timeout" -> "Request timeout"
      [] OTHER -> "Generation failed"

\* answers of GET /status/{uid} as _poll_generation_status distinguishes
\* them: a non-200 response, an exception of the request (connection error,
\* timeout, undecodable body), or a 200 response with a status field
NonTerminalStatuses == {"processing", "texturing", "pending", "unknown"}
PollFailures == {"non200", "exception"}
PollOutcomes ==
    PollFailures \cup {"error", "completed"} \cup NonTerminalStatuses

\* status_data.get('model_base64'): absent/empty, undecodable, decodable
Payloads == {"none", "bad", "ok"}

\* status message written for a non-terminal status (lines 807-811);
\* an unrecognised status writes nothing
NonTerminalStatusText(r, old) ==
    CASE r = "processing" -> "Status: processing..."
      [] r = "texturing" -> "Status: texturing..."
      [] r = "pending" -> "Task queued, waiting..."
      [] OTHER -> old

\* status message of a failed status check (lines 784-786, 819-820)
PollFailureStatus(r) ==
    IF r = "non200" THEN "Failed to check status" ELSE "Status check failed"

\* the job goes on: a status message and the next position
Continue(j, message, pc) ==
    /\ UpdateStatus(message)
    /\ w_pc' = [w_pc EXCEPT ![j] = pc]
    /\ UNCHANGED <<job_state, job_msg>>

\* the job's outcome is decided: its status message, and the position the
\* worker goes to ("after_loop" after a break of the poll loop, "enable" on
\* a return or in an exception handler)
Finish(j, message, state, pc) ==
    /\ UpdateStatus(message)
    /\ w_pc' = [w_pc EXCEPT ![j] = pc]
    /\ job_state' = [job_state EXCEPT ![j] = state]
    /\ job_msg' = [job_msg EXCEPT ![j] = message]

\* _generate_3d_model_async, lines 719-721
WStart(j) ==
    /\ UNCHANGED callVars
    /\ w_pc[j] = "start"
    /\ Continue(j, "Converting image to base64...", "convert")
    /\ UNCHANGED <<uiVars, sceneVars, tickVars, cfgVars,
                   generated_models, pending_ui_updates,
                   generate_btn_enabled, attempt, model_base64,
                   jobs_started, polls, sends, pushed, dispatched,
                   submit_answer, poll_answer, payload>>

\* _generate_3d_model_async, lines 724-736: _image_to_base64 of the image
\* selected now; it returns None when the file cannot be opened
WConvert(j) ==
    /\ UNCHANGED callVars
    /\ w_pc[j] = "convert"
    /\ \E readable \in BOOLEAN :
        /\ readable => /\ selected_image_path # NoImage
                       /\ selected_image_path \in image_files
        /\ IF readable
           THEN Continue(j, "Sending generation request...", "send")
           ELSE Finish(j, "Failed to process image", "Failed", "enable")
    /\ UNCHANGED <<uiVars, sceneVars, tickVars, cfgVars,
                   generated_models, pending_ui_updates,
                   generate_btn_enabled, attempt, model_base64,
                   jobs_started, polls, sends, pushed, dispatched,
                   submit_answer, poll_answer, payload>>

\* lines 758-762: the submit returned a uid, enter the poll loop
SubmitAccepted(j) ==
    /\ UpdateStatus("Generation started")
    /\ w_pc' = [w_pc EXCEPT ![j] = "poll"]
    /\ job_state' = [job_state EXCEPT ![j] = "Polling"]
    /\ UNCHANGED job_msg

\* variant of the submit failure paths that returns without
\* self._generate_btn.enabled = True
SubmitFailed_LeavesDisabled(j, r) ==
    Finish(j, SubmitFailureStatus(r), "Failed", "done")

\* lines 745-756 and 764-772: the submit failed
SubmitFailed(j, r) == Finish(j, SubmitFailureStatus(r), "Failed", "enable")

\* _generate_3d_model_async, lines 739-772: the submit request
WSend(j) ==
    /\ UNCHANGED callVars
    /\ w_pc[j] = "send"
    /\ sends' = [sends EXCEPT ![j] = @ + 1]
    /\ \E r \in SubmitOutcomes :
        /\ submit_answer' = [submit_answer EXCEPT ![j] = r]
        /\ IF r = "ok" THEN SubmitAccepted(j) ELSE SubmitFailed(j, r)
    /\ UNCHANGED <<uiVars, sceneVars, tickVars, cfgVars,
                   generated_models, pending_ui_updates,
                   generate_btn_enabled, attempt, model_base64,
                   jobs_started, polls, pushed, dispatched,
                   poll_answer, payload>>

\* variant of the loop guard: while attempt <= max_attempts
LoopGuard_OffByOne(j) == attempt[j] <= max_attempts

\* line 780: while attempt < max_attempts
LoopGuard(j) == attempt[j] < max_attempts

\* variant of the failed status check that goes on to the next iteration
PollFailed_Retries(j, r) ==
    /\ UpdateStatus(PollFailureStatus(r))
    /\ attempt' = [attempt EXCEPT ![j] = @ + 1]
    /\ UNCHANGED <<w_pc, model_base64, job_state, job_msg>>

\* lines 784-786 (non-200: break) and 819-820 (exception of the request)
PollFailed(j, r) ==
    /\ Finish(j, PollFailureStatus(r), "Failed",
              IF r = "non200" THEN "after_loop" ELSE "enable")
    /\ UNCHANGED <<attempt, model_base64>>

\* variant of the 'error' branch without the break of line 805
PollError_GoesOn(j) ==
    /\ Finish(j, "Generation error", "Failed", "poll")
    /\ attempt' = [attempt EXCEPT ![j] = @ + 1]
    /\ UNCHANGED model_base64

\* variant of the 'error' branch that saves a model as for 'completed'
PollError_Saves(j) ==
    /\ Continue(j, "Generation error", "save")
    /\ model_base64' = [model_base64 EXCEPT ![j] = "ok"]
    /\ UNCHANGED attempt

\* lines 802-805: status 'error'
PollError(j) ==
    /\ Finish(j, "Generation error", "Failed", "after_loop")
    /\ UNCHANGED <<attempt, model_base64>>

\* variant of the 'completed' branch that counts the attempt before the
\* break
PollCompleted_CountsAttempt(j, data) ==
    /\ IF data # "none"
       THEN /\ Continue(j, "Generation completed!", "save")
            /\ model_base64' = [model_base64 EXCEPT ![j] = data]
       ELSE /\ Finish(j, "No model data received", "Failed", "after_loop")
            /\ UNCHANGED model_base64
    /\ attempt' = [attempt EXCEPT ![j] = @ + 1]

\* lines 791-800: status 'completed'; the model is saved only when the
\* answer carries model data
PollCompleted(j, data) ==
    /\ IF data # "none"
       THEN /\ Continue(j, "Generation completed!", "save")
            /\ model_base64' = [model_base64 EXCEPT ![j] = data]
       ELSE /\ Finish(j, "No model data received", "Failed", "after_loop")
            /\ UNCHANGED model_base64
    /\ UNCHANGED attempt

\* variant of the non-terminal branch without attempt += 1
PollRunning_NoIncrement(j, r) ==
    /\ UpdateStatus(NonTerminalStatusText(r, status_text))
    /\ UNCHANGED <<attempt, w_pc, model_base64, job_state, job_msg>>

\* lines 807-814: any other status; attempt += 1, sleep, next iteration
PollRunning(j, r) ==
    /\ UpdateStatus(NonTerminalStatusText(r, status_text))
    /\ attempt' = [attempt EXCEPT ![j] = @ + 1]
    /\ UNCHANGED <<w_pc, model_base64, job_state, job_msg>>

\* _poll_generation_status, lines 780-814: one iteration of the loop.
\* limit bounds the non-terminal answers the server gives the job.
WPoll(j, limit) ==
    /\ UNCHANGED callVars
    /\ w_pc[j] = "poll"
    /\ LoopGuard(j)
    /\ polls' = [polls EXCEPT ![j] = @ + 1]
    /\ \E r \in PollOutcomes :
        /\ poll_answer' = [poll_answer EXCEPT ![j] = r]
        /\ \/ /\ r \in PollFailures
              /\ PollFailed(j, r)
              /\ UNCHANGED payload
           \/ /\ r = "error"
              /\ PollError(j)
              /\ UNCHANGED payload
           \/ /\ r = "completed"
              /\ \E data \in Payloads :
                    /\ payload' = [payload EXCEPT ![j] = data]
                    /\ PollCompleted(j, data)
           \/ /\ r \in NonTerminalStatuses
              /\ attempt[j] < limit
              /\ PollRunning(j, r)
              /\ UNCHANGED payload
    /\ UNCHANGED <<uiVars, sceneVars, tickVars, cfgVars,
                   generated_models, pending_ui_updates,
                   generate_btn_enabled,
                   jobs_started, sends, pushed, dispatched, submit_answer>>

\* lines 816-817, reached when the loop ends by its guard or by a break:
\* if attempt >= max_attempts the job has timed out
AfterLoop(j) ==
    IF attempt[j] >= max_attempts
    THEN Finish(j, "Generation timeout", "Failed", "enable")
    ELSE /\ w_pc' = [w_pc EXCEPT ![j] = "enable"]
         /\ UNCHANGED <<status_text, job_state, job_msg>>

\* _poll_generation_status, lines 780 (guard false) and 816-817
WAfterLoop(j) ==
    /\ UNCHANGED callVars
    /\ \/ w_pc[j] = "after_loop"
       \/ w_pc[j] = "poll" /\ ~LoopGuard(j)
    /\ AfterLoop(j)
    /\ UNCHANGED <<uiVars, sceneVars, tickVars, cfgVars,
                   generated_models, pending_ui_updates,
                   generate_btn_enabled, attempt, model_base64,
                   jobs_started, polls, sends, pushed, dispatched,
                   submit_answer, poll_answer, payload>>

\* variant of the decode-and-write step that goes on after a failure
WSaveFile_IgnoresError(j) ==
    /\ UNCHANGED callVars
    /\ w_pc[j] = "save"
    /\ \E written \in BOOLEAN :
        /\ written => model_base64[j] = "ok"
        /\ model_files' = IF written THEN model_files \cup {j} ELSE model_files
        /\ w_pc' = [w_pc EXCEPT ![j] = "list"]
        /\ UNCHANGED <<status_text, job_state, job_msg>>
    /\ UNCHANGED <<uiVars, models_stack, stage_open, prims,
                   physx_available, tickVars,
                   cfgVars, generated_models, pending_ui_updates,
                   generate_btn_enabled, attempt, model_base64,
                   jobs_started, polls, sends, pushed, dispatched,
                   submit_answer, poll_answer, payload>>

\* _save_generated_model, lines 826-835 (and 860-862): decode and write;
\* b64decode raises on an undecodable payload, open/write may raise
WSaveFile(j) ==
    /\ UNCHANGED callVars
    /\ w_pc[j] = "save"
    /\ \E written \in BOOLEAN :
        /\ written => model_base64[j] = "ok"
        /\ IF written
           THEN /\ model_files' = model_files \cup {j}
                /\ w_pc' = [w_pc EXCEPT ![j] = "list"]
                /\ UNCHANGED <<status_text, job_state, job_msg>>
           ELSE /\ Finish(j, "Failed to save model", "Failed", "after_loop")
                /\ UNCHANGED model_files
    /\ UNCHANGED <<uiVars, models_stack, stage_open, prims,
                   physx_available, tickVars,
                   cfgVars, generated_models, pending_ui_updates,
                   generate_btn_enabled, attempt, model_base64,
                   jobs_started, polls, sends, pushed, dispatched,
                   submit_answer, poll_answer, payload>>

\* variant of line 838 after which the generate button is enabled at once
WSaveList_EnablesButton(j) ==
    /\ UNCHANGED callVars
    /\ w_pc[j] = "list"
    /\ generated_models' = Append(generated_models, j)
    /\ w_pc' = [w_pc EXCEPT ![j] = "enqueue"]
    /\ generate_btn_enabled' = TRUE
    /\ UNCHANGED <<uiVars, sceneVars, tickVars, obsVars, cfgVars,
                   pending_ui_updates, status_text,
                   attempt, model_base64>>

\* _save_generated_model, line 838
WSaveList(j) ==
    /\ UNCHANGED callVars
    /\ w_pc[j] = "list"
    /\ generated_models' = Append(generated_models, j)
    /\ w_pc' = [w_pc EXCEPT ![j] = "enqueue"]
    /\ UNCHANGED <<uiVars, sceneVars, tickVars, obsVars, cfgVars,
                   pending_ui_updates, generate_btn_enabled, status_text,
                   attempt, model_base64>>

\* the event appended for a saved model (lines 841-855)
CompletionEvent(auto, model_path) ==
    [type |-> IF auto THEN "auto_load_model" ELSE "add_model",
     model_path |-> model_path]

\* variant of the hand-off in which the worker loads an auto-load model to
\* the stage itself instead of queueing the event
WEnqueue_LoadsToStage(j) ==
    /\ UNCHANGED callVars
    /\ w_pc[j] = "enqueue"
    /\ IF auto_load_to_stage
       THEN /\ prims' = (UniquePrimPath(BaseName(j), DOMAIN prims) :>
                            [reference |-> j, xform |-> "identity",
                             deformable |-> FALSE, rigid_body |-> FALSE])
                         @@ prims
            /\ UNCHANGED <<pending_ui_updates, pushed>>
       ELSE /\ pending_ui_updates' =
                  Append(pending_ui_updates, CompletionEvent(FALSE, j))
            /\ pushed' = [pushed EXCEPT ![j] = @ + 1]
            /\ UNCHANGED prims
    /\ Finish(j, IF auto_load_to_stage
                 THEN "Model saved and loading to stage"
                 ELSE "Model saved", "Completed", "after_loop")
    /\ UNCHANGED <<uiVars, models_stack, model_files, stage_open,
                   physx_available, tickVars, cfgVars, generated_models,
                   generate_btn_enabled, attempt, model_base64,
                   jobs_started, polls, sends, dispatched,
                   submit_answer, poll_answer, payload>>

\* _save_generated_model, lines 841-856
WEnqueue(j) ==
    /\ UNCHANGED callVars
    /\ w_pc[j] = "enqueue"
    /\ pending_ui_updates' =
          Append(pending_ui_updates, CompletionEvent(auto_load_to_stage, j))
    /\ pushed' = [pushed EXCEPT ![j] = @ + 1]
    /\ Finish(j, IF auto_load_to_stage
                 THEN "Model saved and loading to stage"
                 ELSE "Model saved", "Completed", "after_loop")
    /\ UNCHANGED <<uiVars, sceneVars, tickVars, cfgVars, generated_models,
                   generate_btn_enabled, attempt, model_base64,
                   jobs_started, polls, sends, dispatched,
                   submit_answer, poll_answer, payload>>

\* self._generate_btn.enabled = True, the last statement of every path of
\* the worker (lines 727, 747, 755, 766, 769, 772, 822); the thread ends
WEnable(j) ==
    /\ UNCHANGED callVars
    /\ w_pc[j] = "enable"
    /\ generate_btn_enabled' = TRUE
    /\ w_pc' = [w_pc EXCEPT ![j] = "done"]
    /\ attempt' = [attempt EXCEPT ![j] = 0]
    /\ model_base64' = [model_base64 EXCEPT ![j] = "none"]
    /\ polls' = [polls EXCEPT ![j] = 0]
    /\ sends' = [sends EXCEPT ![j] = 0]
    /\ job_msg' = [job_msg EXCEPT ![j] = "none"]
    /\ submit_answer' = [submit_answer EXCEPT ![j] = "none"]
    /\ poll_answer' = [poll_answer EXCEPT ![j] = "none"]
    /\ payload' = [payload EXCEPT ![j] = "none"]
    /\ UNCHANGED <<uiVars, sceneVars, tickVars, cfgVars,
                   generated_models, pending_ui_updates, status_text,
                   jobs_started, job_state, pushed, dispatched>>

\* ------------------------------------------------ frame callback (UI thread)
\* process_ui_updates, lines 380-382: the queue is not empty, take the snapshot
TickSnapshot ==
    /\ UNCHANGED callVars
    /\ t_pc = "idle"
    /\ pending_ui_updates # <<>>
    /\ updates_to_process' = pending_ui_updates
    /\ t_pc' = "clear"
    /\ UNCHANGED <<uiVars, sceneVars, workerVars, obsVars, cfgVars,
                   generated_models, pending_ui_updates,
                   generate_btn_enabled, status_text>>

\* process_ui_updates, line 383: self._pending_ui_updates.clear()
TickClear ==
    /\ UNCHANGED callVars
    /\ t_pc = "clear"
    /\ pending_ui_updates' = <<>>
    /\ t_pc' = "process"
    /\ UNCHANGED <<uiVars, sceneVars, workerVars, obsVars, cfgVars,
                   generated_models, updates_to_process,
                   generate_btn_enabled, status_text>>

\* variant of the dispatch with the two event types exchanged
TickProcess_SwapsTypes ==
    /\ UNCHANGED callVars
    /\ t_pc = "process"
    /\ updates_to_process # <<>>
    /\ LET update == Head(updates_to_process) IN
        /\ dispatched' = [dispatched EXCEPT ![update.model_path] = @ + 1]
        /\ IF update.type = "auto_load_model"
           THEN /\ models_stack' = Append(models_stack, update.model_path)
                /\ UNCHANGED <<prims, model_files, generated_models,
                               status_text>>
           ELSE \E host \in HostOutcomes :
                  LET r == LoadGlbToStage(update.model_path, host) IN
                    /\ prims' = r.prims
                    /\ model_files' = r.model_files
                    /\ generated_models' = r.generated_models
                    /\ models_stack' = r.models_stack
                    /\ UpdateStatus(r.status)
    /\ updates_to_process' = Tail(updates_to_process)
    /\ t_pc' = IF Tail(updates_to_process) = <<>> THEN "idle" ELSE "process"
    /\ UNCHANGED <<uiVars, workerVars, cfgVars, stage_open,
                   physx_available,
                   pending_ui_updates, generate_btn_enabled,
                   jobs_started, job_state, polls, sends, pushed,
                   job_msg, submit_answer, poll_answer, payload>>

\* process_ui_updates, lines 385-389: one iteration of the loop over the
\* snapshot, with the handler it calls (_add_model_to_ui or
\* _auto_load_model_to_stage -> _load_glb_to_stage)
TickProcess ==
    /\ UNCHANGED callVars
    /\ t_pc = "process"
    /\ updates_to_process # <<>>
    /\ LET update == Head(updates_to_process) IN
        /\ dispatched' = [dispatched EXCEPT ![update.model_path] = @ + 1]
        /\ IF update.type = "add_model"
           THEN /\ models_stack' = Append(models_stack, update.model_path)
                /\ UNCHANGED <<prims, model_files, generated_models,
                               status_text>>
           ELSE \E host \in HostOutcomes :
                  LET r == LoadGlbToStage(update.model_path, host) IN
                    /\ prims' = r.prims
                    /\ model_files' = r.model_files
                    /\ generated_models' = r.generated_models
                    /\ models_stack' = r.models_stack
                    /\ UpdateStatus(r.status)
    /\ updates_to_process' = Tail(updates_to_process)
    /\ t_pc' = IF Tail(updates_to_process) = <<>> THEN "idle" ELSE "process"
    /\ UNCHANGED <<uiVars, workerVars, cfgVars, stage_open,
                   physx_available,
                   pending_ui_updates, generate_btn_enabled,
                   jobs_started, job_state, polls, sends, pushed,
                   job_msg, submit_answer, poll_answer, payload>>

\* process_ui_updates, lines 385-391: the iteration in which
\* _add_model_to_ui raises (the host refuses to build the row): the except
\* of line 390 is outside the loop, so the callback ends there
TickProcessRaises ==
    /\ UNCHANGED callVars
    /\ t_pc = "process"
    /\ updates_to_process # <<>>
    /\ LET update == Head(updates_to_process) IN
        /\ update.type = "add_model"
        /\ dispatched' = [dispatched EXCEPT ![update.model_path] = @ + 1]
    /\ updates_to_process' = <<>>
    /\ t_pc' = "idle"
    /\ UNCHANGED <<uiVars, sceneVars, workerVars, cfgVars,
                   generated_models, status_text,
                   pending_ui_updates, generate_btn_enabled,
                   jobs_started, job_state, polls, sends, pushed,
                   job_msg, submit_answer, poll_answer, payload>>

\* ----------------------------------------- model list and scene (UI thread)
\* _on_deformable_changed; the checkbox is built only when PHYSX_AVAILABLE
\* (lines 165-169)
OnDeformableChanged ==
    /\ UNCHANGED callVars
    /\ UiFree
    /\ physx_available
    /\ apply_deformable_physics' = ~apply_deformable_physics
    /\ UNCHANGED <<auto_load_to_stage, keep_glb_files,
                   apply_rigid_body_physics, generated_models,
                   pending_ui_updates, generate_btn_enabled, status_text>>
    /\ UNCHANGED <<uiVars, sceneVars, workerVars, tickVars, obsVars>>

\* _on_rigid_body_changed
OnRigidBodyChanged ==
    /\ UNCHANGED callVars
    /\ UiFree
    /\ apply_rigid_body_physics' = ~apply_rigid_body_physics
    /\ UNCHANGED <<auto_load_to_stage, keep_glb_files,
                   apply_deformable_physics, generated_models,
                   pending_ui_updates, generate_btn_enabled, status_text>>
    /\ UNCHANGED <<uiVars, sceneVars, workerVars, tickVars, obsVars>>

\* _add_model_to_ui.load_to_stage (button "Load to Stage" of a row)
LoadToStage(model_path) ==
    /\ UNCHANGED callVars
    /\ UiFree
    /\ model_path \in Range(models_stack)
    /\ Cardinality(DOMAIN prims) < MaxPrims
    /\ \E host \in HostOutcomes :
          LET r == LoadGlbToStage(model_path, host) IN
            /\ prims' = r.prims
            /\ model_files' = r.model_files
            /\ generated_models' = r.generated_models
            /\ models_stack' = r.models_stack
            /\ UpdateStatus(r.status)
    /\ UNCHANGED <<stage_open, physx_available, pending_ui_updates,
                   generate_btn_enabled>>
    /\ UNCHANGED <<uiVars, cfgVars, workerVars, tickVars, obsVars>>

\* _add_model_to_ui.delete_model (button "Delete" of a row); an os.remove
\* that raises leaves the list and the rows as they are
DeleteModel(model_path) ==
    /\ UNCHANGED callVars
    /\ UiFree
    /\ model_path \in Range(models_stack)
    /\ \E removed \in BOOLEAN :
          IF model_path \in model_files /\ ~removed
          THEN UNCHANGED <<model_files, generated_models, models_stack>>
          ELSE /\ model_files' = model_files \ {model_path}
               /\ generated_models' = ListRemove(generated_models, model_path)
               /\ models_stack' = Existing(generated_models', model_files')
    /\ UNCHANGED <<stage_open, prims, physx_available, pending_ui_updates,
                   generate_btn_enabled, status_text>>
    /\ UNCHANGED <<uiVars, cfgVars, workerVars, tickVars, obsVars>>

\* the files of the first n listed models
ListedFiles(n) == {generated_models[i] : i \in 1..n}

\* _clear_all_models; failed_at is the position of the listed file whose
\* os.remove raises (0: none does)
ClearAllModels ==
    /\ UNCHANGED callVars
    /\ UiFree
    /\ \E failed_at \in 0..Len(generated_models) :
          IF failed_at = 0
          THEN /\ model_files' = model_files \ Range(generated_models)
               /\ generated_models' = <<>>
               /\ models_stack' = <<>>
               /\ UpdateStatus("All models cleared")
          ELSE /\ generated_models[failed_at] \in model_files
               /\ model_files' = model_files \ ListedFiles(failed_at - 1)
               /\ UpdateStatus("Clear failed")
               /\ UNCHANGED <<generated_models, models_stack>>
    /\ UNCHANGED <<stage_open, prims, physx_available, pending_ui_updates,
                   generate_btn_enabled>>
    /\ UNCHANGED <<uiVars, cfgVars, workerVars, tickVars, obsVars>>

\* _load_external_glb.on_confirm (button "Load to Stage" of the window):
\* the typed path is checked, then _load_glb_to_stage_direct
LoadExternalGlb(model_name) ==
    /\ UNCHANGED callVars
    /\ UiFree
    /\ Cardinality(DOMAIN prims) < MaxPrims
    /\ \E valid_path \in BOOLEAN :
          IF ~valid_path
          THEN /\ UpdateStatus("Invalid GLB file path")
               /\ UNCHANGED prims
          ELSE \E host \in HostOutcomes :
                  LET r == LoadGlbToStageDirect(ExternalGlb, model_name, host)
                  IN /\ prims' = r.prims
                     /\ UpdateStatus(r.status)
    /\ UNCHANGED <<models_stack, model_files, stage_open, physx_available,
                   generated_models, pending_ui_updates,
                   generate_btn_enabled>>
    /\ UNCHANGED <<uiVars, cfgVars, workerVars, tickVars, obsVars>>

\* ------------------------------------------------------- scale to height
\* A positive float is modelled by its exponent e and its significand m of
\* Precision bits: m[1] is the leading bit 1 and m[2..5] are the 52 bits
\* after it in four groups of 13 bits, each a number below Group; its
\* value is 1.m[2]m[3]m[4]m[5] (binary) * 2^e.  Division and
\* multiplication round to nearest, ties to even, as Python's do.
RECURSIVE Pow2(_)
Pow2(n) == IF n = 0 THEN 1 ELSE 2 * Pow2(n - 1)

\* the number of binary digits of n >= 1
RECURSIVE BitLength(_)
BitLength(n) == IF n < 2 THEN 1 ELSE 1 + BitLength(n \div 2)

\* the float of a whole number 1 <= n < Group (exact)
FromInt(n) ==
    LET e == BitLength(n) - 1
    IN [e |-> e, m |-> <<1, (n - Pow2(e)) * Pow2(GroupBits - e), 0, 0, 0>>]

\* the significand after m and the one before it (no carry out of, no
\* borrow from, the leading bit)
RECURSIVE Increment(_, _)
Increment(m, i) ==
    IF m[i] < Group - 1 THEN [m EXCEPT ![i] = @ + 1]
    ELSE Increment([m EXCEPT ![i] = 0], i - 1)

RECURSIVE Decrement(_, _)
Decrement(m, i) ==
    IF m[i] > 0 THEN [m EXCEPT ![i] = @ - 1]
    ELSE Decrement([m EXCEPT ![i] = Group - 1], i - 1)

Least == <<1, 0, 0, 0, 0>>
Greatest == <<1, Group - 1, Group - 1, Group - 1, Group - 1>>

\* the next float above x and the next float below x
NextUp(x) ==
    IF x.m = Greatest THEN [e |-> x.e + 1, m |-> Least]
    ELSE [e |-> x.e, m |-> Increment(x.m, Len(x.m))]

NextDown(x) ==
    IF x.m = Least THEN [e |-> x.e - 1, m |-> Greatest]
    ELSE [e |-> x.e, m |-> Decrement(x.m, Len(x.m))]

\* round to nearest, ties to even: x holds the leading Precision bits of
\* the exact result, and what was cut off is above, or exactly, half a
\* unit of the last bit kept
Rounded(x, above_half, exactly_half) ==
    IF above_half \/ (exactly_half /\ x.m[Len(x.m)] % 2 = 1)
    THEN NextUp(x) ELSE x

\* the exponent of h / c: the greatest e with 2^e <= h / c
QuotientExponent(h, c) ==
    LET e0 == BitLength(h) - BitLength(c)
        Fits(e) == IF e >= 0 THEN c * Pow2(e) <= h ELSE c <= h * Pow2(-e)
    IN IF Fits(e0) THEN e0 ELSE e0 - 1

\* long division r / d (r < d), one group of bits at a time: the groups
\* found so far in q, k groups to go
RECURSIVE LongDivision(_, _, _, _)
LongDivision(r, d, k, q) ==
    IF k = 0 THEN [q |-> q, rem |-> r]
    ELSE LongDivision((r * Group) % d, d, k - 1,
                      Append(q, (r * Group) \div d))

\* the float h / c of two whole numbers of grid steps 1 <= h, c < Group
Div(h, c) ==
    LET e == QuotientExponent(h, c)
        n == IF e < 0 THEN h * Pow2(-e) ELSE h
        d == IF e < 0 THEN c ELSE c * Pow2(e)
    IN \* n / d is in [1, 2): the leading bit is 1
       LET long == LongDivision(n - d, d, Groups, <<1>>)
       IN Rounded([e |-> e, m |-> long.q],
                  2 * long.rem > d, 2 * long.rem = d)

\* the groups of m * c, least significant first: each group of m times c
\* plus the carry of the group after it; the leading group is not reduced
RECURSIVE Times(_, _, _, _)
Times(m, c, i, carry) ==
    LET t == m[i] * c + carry
    IN IF i = 1 THEN <<t>>
       ELSE Append(Times(m, c, i - 1, t \div Group), t % Group)

\* p shifted right by s bits, group by group from the leading one: prev is
\* what the group before left behind
RECURSIVE Shifted(_, _, _, _)
Shifted(p, s, i, prev) ==
    IF i > Len(p) THEN <<>>
    ELSE <<(prev * Group + p[i]) \div Pow2(s)>>
         \o Shifted(p, s, i + 1, p[i] % Pow2(s))

\* the float c * x of a whole number of grid steps 1 <= c < Group and a
\* float x
Mul(c, x) ==
    LET p == Times(x.m, c, Len(x.m), 0)
        s == BitLength(p[1]) - 1
        cut == p[Len(p)] % Pow2(s)
    IN IF s = 0 THEN [e |-> x.e, m |-> p]
       ELSE Rounded([e |-> x.e + s,
                     m |-> <<1>> \o Shifted(p, s, 2, p[1] % Pow2(s))],
                    2 * cut > Pow2(s), 2 * cut = Pow2(s))

Abs(x) == IF x < 0 THEN -x ELSE x

\* the heights measured on the selected prim and asked for in the panel
Heights ==
    (1..MaxHeight) \cup
    {GridPerMetre, GridPerMetre + 1, GridPerMetre + 3, 2 * GridPerMetre}

\* the whole number of grid steps a float is, or -1 if it is none below
\* Group
Whole(x) ==
    IF x = Zero THEN 0
    ELSE IF /\ x.e \in 0..(GroupBits - 1)
            /\ x.m[3] = 0 /\ x.m[4] = 0 /\ x.m[5] = 0
            /\ x.m[2] % Pow2(GroupBits - x.e) = 0
    THEN Pow2(x.e) + x.m[2] \div Pow2(GroupBits - x.e)
    ELSE -1

\* the sum of the products x.m[i] * y.m[j] with i + j = k, from i on
RECURSIVE ColumnSum(_, _, _, _)
ColumnSum(x, y, k, i) ==
    IF i > Len(x.m) THEN 0
    ELSE (IF k - i \in 1..Len(y.m) THEN x.m[i] * y.m[k - i] ELSE 0)
            + ColumnSum(x, y, k, i + 1)

\* the groups of the exact product of two significands, leading group
\* first (it is 1, 2 or 3): group k is the sum of column k and the carry
\* of column k + 1
RECURSIVE Product(_, _, _, _)
Product(x, y, k, carry) ==
    CHOOSE p \in {IF k = 2 THEN <<t>>
                  ELSE Append(Product(x, y, k - 1, t \div Group), t % Group) :
                  t \in {ColumnSum(x, y, k, 1) + carry}} : TRUE

AllZero(p, from) == \A i \in from..Len(p) : p[i] = 0

\* the float x * y of two floats
MulF(x, y) ==
    IF x = Zero \/ y = Zero THEN Zero
    ELSE LET p == Product(x, y, 2 * Len(x.m), 0)
             n == Len(x.m)
         IN IF p[1] = 1
            THEN Rounded([e |-> x.e + y.e, m |-> SubSeq(p, 1, n)],
                         2 * p[n + 1] > Group
                            \/ (2 * p[n + 1] = Group /\ ~AllZero(p, n + 2)),
                         2 * p[n + 1] = Group /\ AllZero(p, n + 2))
            ELSE Rounded([e |-> x.e + y.e + 1,
                          m |-> <<1>> \o Shifted(SubSeq(p, 1, n), 1, 2,
                                                 p[1] % 2)],
                         p[n] % 2 = 1 /\ ~AllZero(p, n + 1),
                         p[n] % 2 = 1 /\ AllZero(p, n + 1))

\* the product of two floats as a real number, without rounding: two
\* products are the same number exactly when these records are equal
Exact(x, y) ==
    LET p == Product(x, y, 2 * Len(x.m), 0)
    IN IF p[1] = 1
       THEN [e |-> x.e + y.e - 1, p |-> Times(p, 2, Len(p), 0)]
       ELSE [e |-> x.e + y.e, p |-> p]

\* lines 1548-1550 and 1597-1615: the axes of the combo box and the index
\* of the height among the dimensions (X is 1, Y is 2, Z is 3)
Axes == {"Y", "X", "Z"}
HeightIdx(height_axis) ==
    IF height_axis = "Z" THEN 3 ELSE IF height_axis = "X" THEN 1 ELSE 2

\* variant of line 1629 that divides the wrong way round
ScaleFactor_Inverted(actual_height, current_height) ==
    IF actual_height = 0 THEN Zero ELSE Div(current_height, actual_height)

\* line 1629: scale_factor = actual_height / current_height, for
\* current_height > 0
ScaleFactor(actual_height, current_height) ==
    IF actual_height = 0 THEN Zero ELSE Div(actual_height, current_height)

\* what _scale_prim_to_height returns when it fails (lines 1590, 1741)
None == [returned |-> "None"]

\* variant of lines 1632-1636 that scales the height component only
NewScale_HeightOnly(current_scale, scale_factor, height_idx) ==
    [i \in 1..3 |-> IF i = height_idx
                    THEN MulF(current_scale[i], scale_factor)
                    ELSE current_scale[i]]

\* the three components of a vector times one float (equal components
\* are multiplied once)
Vec3Times(v, f) ==
    CHOOSE w \in {[i \in 1..3 |-> product[v[i]]] :
                    product \in {[c \in {v[i] : i \in 1..3} |-> MulF(c, f)]}} :
        TRUE

\* lines 1632-1636: new_scale
NewScale(current_scale, scale_factor, height_idx) ==
    Vec3Times(current_scale, scale_factor)

\* lines 1685-1694 and 1726-1737: the dict returned; new_dimensions are
\* lines 1639-1641 (kept here along X, Y, Z)
ScaleDict(prim, actual_height, height_axis, scaled) ==
    LET height_idx == HeightIdx(height_axis)
        current_height == Whole(prim.dimensions[height_idx])
        current_scale == prim.scale_op.value
    IN CHOOSE dict \in
          {[returned |-> "dict",
            current_dimensions |-> prim.dimensions,
            current_height |-> current_height,
            current_scale |-> current_scale,
            target_height |-> actual_height,
            height_axis |-> height_axis,
            scale_factor |-> scale_factor,
            new_scale |-> NewScale(current_scale, scale_factor, height_idx),
            new_dimensions |-> Vec3Times(prim.dimensions, scale_factor),
            scaled |-> scaled,
            reason |-> IF scaled THEN "Success"
                       ELSE "Height already correct"] :
           scale_factor \in {ScaleFactor(actual_height, current_height)}} :
          TRUE

\* lines 1711-1717: the scale operation is created if the prim has none and
\* set to new_scale; the prim then measures what lines 1639-1641 expect
ScaledPrim(prim, dict) ==
    [bbox |-> "range", dimensions |-> dict.new_dimensions,
     scale_op |-> [exists |-> TRUE, value |-> dict.new_scale],
     writes |-> prim.writes + 1]

\* lines 1696-1737: the prim is scaled and the dict returned
Scaled(prim, actual_height, height_axis) ==
    CHOOSE r \in {[result |-> dict, prim |-> ScaledPrim(prim, dict)] :
                    dict \in {ScaleDict(prim, actual_height, height_axis,
                                        TRUE)}} : TRUE

\* the failures of _scale_prim_to_height: an empty bounding box returns
\* None (line 1590); a bounding box of height 0 makes line 1629 raise
\* ZeroDivisionError, caught at line 1739
Fails(prim, height_axis) ==
    prim.bbox = "empty" \/ prim.dimensions[HeightIdx(height_axis)] = Zero

\* the check of lines 1677-1678
WithinTolerance(prim, actual_height, height_axis) ==
    Abs(Whole(prim.dimensions[HeightIdx(height_axis)]) - actual_height)
        <= tolerance

\* variant of _scale_prim_to_height without the check of lines 1677-1694
ScalePrimToHeight_NoToleranceCheck(prim, actual_height, height_axis) ==
    IF Fails(prim, height_axis)
    THEN [result |-> None, prim |-> prim]
    ELSE Scaled(prim, actual_height, height_axis)

\* variant of _scale_prim_to_height with the check of lines 1677-1694
\* before the division of line 1629
ScalePrimToHeight_ChecksBeforeDividing(prim, actual_height, height_axis) ==
    IF prim.bbox = "empty"
    THEN [result |-> None, prim |-> prim]
    ELSE IF WithinTolerance(prim, actual_height, height_axis)
    THEN [result |-> [returned |-> "dict", scaled |-> FALSE], prim |-> prim]
    ELSE IF Fails(prim, height_axis)
    THEN [result |-> None, prim |-> prim]
    ELSE Scaled(prim, actual_height, height_axis)

\* _scale_prim_to_height(prim_path, stage, actual_height, height_axis) on
\* a prim whose extents are whole numbers of grid steps: what it returns
\* and what the prim is afterwards
ScalePrimToHeight(prim, actual_height, height_axis) ==
    IF Fails(prim, height_axis)
    THEN [result |-> None, prim |-> prim]
    ELSE IF WithinTolerance(prim, actual_height, height_axis)
    THEN [result |-> ScaleDict(prim, actual_height, height_axis, FALSE),
          prim |-> prim]
    ELSE Scaled(prim, actual_height, height_axis)

\* the text _scale_selected_prim shows for a result (lines 1555-1564)
ResultLabel(result) ==
    IF result.returned = "None" THEN "Failed to scale prim"
    ELSE IF result.scaled THEN "Scaled" ELSE "Height already correct"

\* the extents of the prim are whole numbers of grid steps
OnGrid(prim) ==
    prim.bbox = "range" => \A i \in 1..3 : Whole(prim.dimensions[i]) >= 0

\* the rest of the program state, which the scale panel leaves alone
ScaleFrame ==
    /\ UNCHANGED <<attach, generated_models, pending_ui_updates,
                   generate_btn_enabled, status_text>>
    /\ UNCHANGED <<uiVars, sceneVars, cfgVars, workerVars, tickVars, obsVars>>

\* variant of _scale_selected_prim without the check of lines 1541-1545
ScaleSelectedPrim_NoHeightCheck(actual_height, height_axis) ==
    /\ UiFree
    /\ OnGrid(selected_prim)
    /\ selected_prim.writes < MaxScalings
    /\ IF ~stage_open
       THEN /\ scale_result_label' = "Failed: No stage available"
            /\ UNCHANGED <<selected_prim, scale_result>>
       ELSE \E r \in {ScalePrimToHeight(selected_prim, actual_height,
                                        height_axis)} :
               /\ selected_prim' = r.prim
               /\ scale_result' = r.result
               /\ scale_result_label' = ResultLabel(r.result)
    /\ ScaleFrame

\* _scale_selected_prim (button "Scale to Actual Height") with a valid prim
\* selected, whose extents are whole numbers of grid steps; actual_height
\* is the value of the height field and height_axis the choice of the
\* combo box; a prim is followed until its scale operation has been set
\* MaxScalings times
ScaleSelectedPrim(actual_height, height_axis) ==
    /\ UiFree
    /\ OnGrid(selected_prim)
    /\ selected_prim.writes < MaxScalings
    /\ IF ~stage_open
       THEN /\ scale_result_label' = "Failed: No stage available"
            /\ UNCHANGED <<selected_prim, scale_result>>
       ELSE IF actual_height <= 0
       THEN /\ scale_result_label' = "Failed: Height must be > 0"
            /\ UNCHANGED <<selected_prim, scale_result>>
       ELSE \E r \in {ScalePrimToHeight(selected_prim, actual_height,
                                        height_axis)} :
               /\ selected_prim' = r.prim
               /\ scale_result' = r.result
               /\ scale_result_label' = ResultLabel(r.result)
    /\ ScaleFrame

\* ------------------------------------- physics attachment, call by call
\* lines 1029-1036 of _load_glb_to_stage (1184-1191 of the direct import):
\* the call of _apply_deformable_physics_to_prim on the node just created,
\* made when the deformable option is set
AttachDeformable ==
    /\ UiFree
    /\ apply_deformable_physics
    /\ ~attach.deformable.called
    /\ attach' = [attach EXCEPT !.deformable =
                    [called |-> TRUE] @@
                    ApplyDeformablePhysicsToPrim(physx_available,
                        attach.meshes, attach.deformable_fails)]
    /\ UNCHANGED <<selected_prim, scale_result_label, scale_result>>
    /\ UNCHANGED <<generated_models, pending_ui_updates,
                   generate_btn_enabled, status_text>>
    /\ UNCHANGED <<uiVars, sceneVars, cfgVars, workerVars, tickVars, obsVars>>

\* lines 1038-1045 (1193-1200): the call of _apply_rigid_body_collider,
\* made after the deformable step when the rigid-body option is set
AttachRigidBody ==
    /\ UiFree
    /\ apply_rigid_body_physics
    /\ ~attach.rigid.called
    /\ attach' = [attach EXCEPT !.rigid =
                    [called |-> TRUE] @@
                    ApplyRigidBodyCollider(attach.meshes,
                        attach.collider_fails)]
    /\ UNCHANGED <<selected_prim, scale_result_label, scale_result>>
    /\ UNCHANGED <<generated_models, pending_ui_updates,
                   generate_btn_enabled, status_text>>
    /\ UNCHANGED <<uiVars, sceneVars, cfgVars, workerVars, tickVars, obsVars>>

\* ------------------------------------------------------- specifications
Worker(j, limit) ==
    \/ WStart(j)
    \/ WConvert(j)
    \/ WSend(j)
    \/ WPoll(j, limit)
    \/ WAfterLoop(j)
    \/ WSaveFile(j)
    \/ WSaveList(j)
    \/ WEnqueue(j)
    \/ WEnable(j)

Tick == TickSnapshot \/ TickClear \/ TickProcess

User ==
    \/ UploadImage
    \/ \E p \in ImagePaths : SelectForGeneration(p)
    \/ \E p \in ImagePaths : RemoveImage(p)
    \/ ClearAllImages(FALSE)
    \/ OnAutoLoadChanged
    \/ OnKeepGlbChanged
    \/ Generate3dModel

\* the whole program, against a server that answers a job with at most
\* MaxPending non-terminal statuses
Next ==
    \/ User
    \/ Tick
    \/ \E j \in Jobs : Worker(j, MaxPending)

Spec == Init /\ [][Next]_vars

\* the generation pipeline with the full poll budget, from the state after
\* one upload and the selection of the uploaded image
PollInit ==
    /\ attach = NoPhysicsCall
    /\ selected_prim = EmptyPrim
    /\ scale_result_label = ""
    /\ scale_result = NoScaleCall
    /\ uploaded_images = <<1>>
    /\ selected_image_path = 1
    /\ generated_models = <<>>
    /\ pending_ui_updates = <<>>
    /\ auto_load_to_stage = TRUE
    /\ keep_glb_files = FALSE
    /\ apply_deformable_physics = FALSE
    /\ apply_rigid_body_physics = FALSE
    /\ generate_btn_enabled = TRUE
    /\ status_text = "Ready"
    /\ image_stack = <<1>>
    /\ models_stack = <<>>
    /\ image_files = {1}
    /\ model_files = {}
    /\ stage_open = TRUE
    /\ prims = <<>>
    /\ physx_available = TRUE
    /\ w_pc = [j \in Jobs |-> "none"]
    /\ attempt = [j \in Jobs |-> 0]
    /\ model_base64 = [j \in Jobs |-> "none"]
    /\ t_pc = "idle"
    /\ updates_to_process = <<>>
    /\ jobs_started = 0
    /\ job_state = [j \in Jobs |-> "Idle"]
    /\ polls = [j \in Jobs |-> 0]
    /\ sends = [j \in Jobs |-> 0]
    /\ pushed = [j \in Jobs |-> 0]
    /\ dispatched = [j \in Jobs |-> 0]
    /\ job_msg = [j \in Jobs |-> "none"]
    /\ submit_answer = [j \in Jobs |-> "none"]
    /\ poll_answer = [j \in Jobs |-> "none"]
    /\ payload = [j \in Jobs |-> "none"]

PollNext ==
    \/ Generate3dModel
    \/ Tick
    \/ \E j \in Jobs : Worker(j, max_attempts)

PollSpec == PollInit /\ [][PollNext]_vars

\* the pipeline with the full poll budget, where every live worker
\* eventually takes its next step (every network call returns or times out)
LiveSpec ==
    /\ PollInit
    /\ [][PollNext]_vars
    /\ \A j \in Jobs : WF_vars(Worker(j, max_attempts))

\* the jobs that ran before the last one
EarlierJobs == 1..(MaxJobs - 1)

\* the models of the earlier jobs, in the order they were saved
EarlierModels == [j \in EarlierJobs |-> j]

\* the last generation job together with the model list and the scene: the
\* state after one upload, the selection of the uploaded image and, with
\* auto-load switched off, one completed job per earlier model, each saved,
\* dispatched as 'add_model' and listed with its row; the server answers the
\* last job with at most one non-terminal status
SceneInit ==
    /\ attach = NoPhysicsCall
    /\ selected_prim = EmptyPrim
    /\ scale_result_label = ""
    /\ scale_result = NoScaleCall
    /\ uploaded_images = <<1>>
    /\ selected_image_path = 1
    /\ generated_models = EarlierModels
    /\ pending_ui_updates = <<>>
    /\ auto_load_to_stage = TRUE
    /\ keep_glb_files = FALSE
    /\ apply_deformable_physics = FALSE
    /\ apply_rigid_body_physics = FALSE
    /\ generate_btn_enabled = TRUE
    /\ status_text = "Model saved"
    /\ image_stack = <<1>>
    /\ models_stack = EarlierModels
    /\ image_files = {1}
    /\ model_files = EarlierJobs
    /\ stage_open = TRUE
    /\ prims = <<>>
    /\ physx_available = TRUE
    /\ w_pc = [j \in Jobs |-> IF j \in EarlierJobs THEN "done" ELSE "none"]
    /\ attempt = [j \in Jobs |-> 0]
    /\ model_base64 = [j \in Jobs |-> "none"]
    /\ t_pc = "idle"
    /\ updates_to_process = <<>>
    /\ jobs_started = MaxJobs - 1
    /\ job_state = [j \in Jobs |->
                      IF j \in EarlierJobs THEN "Completed" ELSE "Idle"]
    /\ polls = [j \in Jobs |-> 0]
    /\ sends = [j \in Jobs |-> 0]
    /\ pushed = [j \in Jobs |-> IF j \in EarlierJobs THEN 1 ELSE 0]
    /\ dispatched = [j \in Jobs |-> IF j \in EarlierJobs THEN 1 ELSE 0]
    /\ job_msg = [j \in Jobs |-> "none"]
    /\ submit_answer = [j \in Jobs |-> "none"]
    /\ poll_answer = [j \in Jobs |-> "none"]
    /\ payload = [j \in Jobs |-> "none"]

SceneUser ==
    \/ OnRigidBodyChanged
    \/ Generate3dModel
    \/ \E p \in Jobs : LoadToStage(p)

SceneNext ==
    \/ SceneUser
    \/ Tick
    \/ \E j \in Jobs : Worker(j, 1)

SceneSpec == SceneInit /\ [][SceneNext]_vars

\* the types of the events of the completed jobs, for each way the user
\* had auto-load switched while the jobs ran
EventTypes == [Jobs -> {"auto_load_model", "add_model"}]

\* the model list, the drain and the scene after the generation jobs: every
\* job has saved its model and appended its event, its worker has ended,
\* and no frame callback has run yet
ImportInit ==
    /\ attach = NoPhysicsCall
    /\ selected_prim = EmptyPrim
    /\ scale_result_label = ""
    /\ scale_result = NoScaleCall
    /\ uploaded_images = <<1>>
    /\ selected_image_path = 1
    /\ generated_models = [j \in Jobs |-> j]
    /\ \E types \in EventTypes :
          /\ pending_ui_updates =
                [j \in Jobs |->
                    CompletionEvent(types[j] = "auto_load_model", j)]
          /\ auto_load_to_stage = (types[MaxJobs] = "auto_load_model")
          /\ status_text = IF types[MaxJobs] = "auto_load_model"
                           THEN "Model saved and loading to stage"
                           ELSE "Model saved"
    /\ keep_glb_files = FALSE
    /\ apply_deformable_physics = FALSE
    /\ apply_rigid_body_physics = FALSE
    /\ generate_btn_enabled = TRUE
    /\ image_stack = <<1>>
    /\ models_stack = <<>>
    /\ image_files = {1}
    /\ model_files = Jobs
    /\ stage_open \in BOOLEAN
    /\ prims = <<>>
    /\ physx_available = TRUE
    /\ w_pc = [j \in Jobs |-> "done"]
    /\ attempt = [j \in Jobs |-> 0]
    /\ model_base64 = [j \in Jobs |-> "none"]
    /\ t_pc = "idle"
    /\ updates_to_process = <<>>
    /\ jobs_started = MaxJobs
    /\ job_state = [j \in Jobs |-> "Completed"]
    /\ polls = [j \in Jobs |-> 0]
    /\ sends = [j \in Jobs |-> 0]
    /\ pushed = [j \in Jobs |-> 1]
    /\ dispatched = [j \in Jobs |-> 0]
    /\ job_msg = [j \in Jobs |-> "none"]
    /\ submit_answer = [j \in Jobs |-> "none"]
    /\ poll_answer = [j \in Jobs |-> "none"]
    /\ payload = [j \in Jobs |-> "none"]

ImportUser ==
    \/ OnKeepGlbChanged
    \/ \E p \in Jobs : LoadToStage(p)
    \/ \E p \in Jobs : DeleteModel(p)
    \/ ClearAllModels
    \/ \E n \in ExternalNames : LoadExternalGlb(n)

ImportNext == ImportUser \/ Tick

ImportSpec == ImportInit /\ [][ImportNext]_vars

\* the same on a host that may refuse to build a row of the model list
DrainNext == ImportNext \/ TickProcessRaises

DrainSpec == ImportInit /\ [][DrainNext]_vars

\* ---- the two attachment functions on every node the host can hold: the
\* number of meshes under the node and the meshes on which an attachment
\* raises are drawn, the options are set by their checkboxes, and each
\* function is called as the import calls it
AttachInit ==
    /\ \E m \in 0..MaxMeshes :
          \E collider_fails \in SUBSET (1..m) :
             \E deformable_fails \in SUBSET (1..m) :
                attach = [NoPhysicsCall EXCEPT
                             !.meshes = m,
                             !.collider_fails = collider_fails,
                             !.deformable_fails = deformable_fails]
    /\ selected_prim = EmptyPrim
    /\ scale_result_label = ""
    /\ scale_result = NoScaleCall
    /\ physx_available \in BOOLEAN
    /\ uploaded_images = <<>>
    /\ selected_image_path = NoImage
    /\ generated_models = <<>>
    /\ pending_ui_updates = <<>>
    /\ auto_load_to_stage = TRUE
    /\ keep_glb_files = FALSE
    /\ apply_deformable_physics = FALSE
    /\ apply_rigid_body_physics = FALSE
    /\ generate_btn_enabled = TRUE
    /\ status_text = "Ready"
    /\ image_stack = <<>>
    /\ models_stack = <<>>
    /\ image_files = {}
    /\ model_files = {}
    /\ stage_open = TRUE
    /\ prims = <<>>
    /\ w_pc = [j \in Jobs |-> "none"]
    /\ attempt = [j \in Jobs |-> 0]
    /\ model_base64 = [j \in Jobs |-> "none"]
    /\ t_pc = "idle"
    /\ updates_to_process = <<>>
    /\ jobs_started = 0
    /\ job_state = [j \in Jobs |-> "Idle"]
    /\ polls = [j \in Jobs |-> 0]
    /\ sends = [j \in Jobs |-> 0]
    /\ pushed = [j \in Jobs |-> 0]
    /\ dispatched = [j \in Jobs |-> 0]
    /\ job_msg = [j \in Jobs |-> "none"]
    /\ submit_answer = [j \in Jobs |-> "none"]
    /\ poll_answer = [j \in Jobs |-> "none"]
    /\ payload = [j \in Jobs |-> "none"]

AttachNext ==
    \/ OnDeformableChanged
    \/ OnRigidBodyChanged
    \/ AttachDeformable
    \/ AttachRigidBody

AttachSpec == AttachInit /\ [][AttachNext]_vars

\* ---- the scale panel on every prim the user can have selected: an empty
\* prim, or a prim of some height (0 for a flat one) with or without a
\* scale operation
\* a measurable prim of the given extents (whole grid steps along X, Y, Z)
Prim(x, y, z, scale_op) ==
    [bbox |-> "range",
     dimensions |-> [i \in 1..3 |->
                       LET n == <<x, y, z>>[i]
                       IN IF n = 0 THEN Zero ELSE FromInt(n)],
     scale_op |-> scale_op, writes |-> 0]

\* the prims the scale panel is tried on: one with nothing to measure and
\* cubes, without a scale operation or with the one the import sets
\* (line 1020)
SelectablePrims ==
    {EmptyPrim} \cup
    {Prim(c, c, c, scale_op) :
        c \in {0} \cup Heights,
        scale_op \in {NoScaleOp, [exists |-> TRUE, value |-> UnitScale]}}

ScaleInit ==
    /\ attach = NoPhysicsCall
    /\ selected_prim \in SelectablePrims
    /\ scale_result_label = ""
    /\ scale_result = NoScaleCall
    /\ physx_available = TRUE
    /\ uploaded_images = <<>>
    /\ selected_image_path = NoImage
    /\ generated_models = <<>>
    /\ pending_ui_updates = <<>>
    /\ auto_load_to_stage = TRUE
    /\ keep_glb_files = FALSE
    /\ apply_deformable_physics = FALSE
    /\ apply_rigid_body_physics = FALSE
    /\ generate_btn_enabled = TRUE
    /\ status_text = "Ready"
    /\ image_stack = <<>>
    /\ models_stack = <<>>
    /\ image_files = {}
    /\ model_files = {}
    /\ stage_open = TRUE
    /\ prims = <<>>
    /\ w_pc = [j \in Jobs |-> "none"]
    /\ attempt = [j \in Jobs |-> 0]
    /\ model_base64 = [j \in Jobs |-> "none"]
    /\ t_pc = "idle"
    /\ updates_to_process = <<>>
    /\ jobs_started = 0
    /\ job_state = [j \in Jobs |-> "Idle"]
    /\ polls = [j \in Jobs |-> 0]
    /\ sends = [j \in Jobs |-> 0]
    /\ pushed = [j \in Jobs |-> 0]
    /\ dispatched = [j \in Jobs |-> 0]
    /\ job_msg = [j \in Jobs |-> "none"]
    /\ submit_answer = [j \in Jobs |-> "none"]
    /\ poll_answer = [j \in Jobs |-> "none"]
    /\ payload = [j \in Jobs |-> "none"]

\* the values of the height field that are no heights
NotPositive == {-1, 0}

ScaleNext == \E actual_height \in NotPositive \cup Heights :
                ScaleSelectedPrim(actual_height, "Y")

ScaleSpec == ScaleInit /\ [][ScaleNext]_vars

\* the scale panel on boxes that are no cubes, along every axis.  An extent
\* is 0 (a flat box), 1 or 11 grid steps and a target 1 or 15 grid steps:
\* 15 / 11 is no float.  A box has no scale operation or one with three
\* different components
BoxExtents == {0, 1, 11}
BoxTargets == {1, 15}
Boxes ==
    {EmptyPrim} \cup
    {Prim(x, y, z, scale_op) :
        x \in BoxExtents, y \in BoxExtents, z \in BoxExtents,
        scale_op \in {NoScaleOp,
                      [exists |-> TRUE,
                       value |-> <<FromInt(1), FromInt(2), FromInt(3)>>]}}

BoxInit ==
    /\ attach = NoPhysicsCall
    /\ selected_prim \in Boxes
    /\ scale_result_label = ""
    /\ scale_result = NoScaleCall
    /\ physx_available = TRUE
    /\ uploaded_images = <<>>
    /\ selected_image_path = NoImage
    /\ generated_models = <<>>
    /\ pending_ui_updates = <<>>
    /\ auto_load_to_stage = TRUE
    /\ keep_glb_files = FALSE
    /\ apply_deformable_physics = FALSE
    /\ apply_rigid_body_physics = FALSE
    /\ generate_btn_enabled = TRUE
    /\ status_text = "Ready"
    /\ image_stack = <<>>
    /\ models_stack = <<>>
    /\ image_files = {}
    /\ model_files = {}
    /\ stage_open = TRUE
    /\ prims = <<>>
    /\ w_pc = [j \in Jobs |-> "none"]
    /\ attempt = [j \in Jobs |-> 0]
    /\ model_base64 = [j \in Jobs |-> "none"]
    /\ t_pc = "idle"
    /\ updates_to_process = <<>>
    /\ jobs_started = 0
    /\ job_state = [j \in Jobs |-> "Idle"]
    /\ polls = [j \in Jobs |-> 0]
    /\ sends = [j \in Jobs |-> 0]
    /\ pushed = [j \in Jobs |-> 0]
    /\ dispatched = [j \in Jobs |-> 0]
    /\ job_msg = [j \in Jobs |-> "none"]
    /\ submit_answer = [j \in Jobs |-> "none"]
    /\ poll_answer = [j \in Jobs |-> "none"]
    /\ payload = [j \in Jobs |-> "none"]

BoxNext == \E actual_height \in BoxTargets : \E height_axis \in Axes :
              ScaleSelectedPrim(actual_height, height_axis)

BoxSpec == BoxInit /\ [][BoxNext]_vars

\* the image panel alone, with up to MaxUploads images, in a directory
\* that may hold files of an earlier session (line 91 keeps them) and on a
\* file system that may refuse a deletion
ImageInit ==
    /\ attach = NoPhysicsCall
    /\ selected_prim = EmptyPrim
    /\ scale_result_label = ""
    /\ scale_result = NoScaleCall
    /\ physx_available = TRUE
    /\ uploaded_images = <<>>
    /\ selected_image_path = NoImage
    /\ generated_models = <<>>
    /\ pending_ui_updates = <<>>
    /\ auto_load_to_stage = TRUE
    /\ keep_glb_files = FALSE
    /\ apply_deformable_physics = FALSE
    /\ apply_rigid_body_physics = FALSE
    /\ generate_btn_enabled = TRUE
    /\ status_text = "Ready"
    /\ image_stack = <<>>
    /\ models_stack = <<>>
    /\ image_files \in SUBSET (1..(MaxUploads - 1))
    /\ model_files = {}
    /\ stage_open = TRUE
    /\ prims = <<>>
    /\ w_pc = [j \in Jobs |-> "none"]
    /\ attempt = [j \in Jobs |-> 0]
    /\ model_base64 = [j \in Jobs |-> "none"]
    /\ t_pc = "idle"
    /\ updates_to_process = <<>>
    /\ jobs_started = 0
    /\ job_state = [j \in Jobs |-> "Idle"]
    /\ polls = [j \in Jobs |-> 0]
    /\ sends = [j \in Jobs |-> 0]
    /\ pushed = [j \in Jobs |-> 0]
    /\ dispatched = [j \in Jobs |-> 0]
    /\ job_msg = [j \in Jobs |-> "none"]
    /\ submit_answer = [j \in Jobs |-> "none"]
    /\ poll_answer = [j \in Jobs |-> "none"]
    /\ payload = [j \in Jobs |-> "none"]

ImageNext ==
    \/ UploadSingleImage(MaxUploads)
    \/ \E p \in 1..MaxUploads : SelectForGeneration(p)
    \/ \E p \in 1..MaxUploads : RemoveImage(p)
    \/ ClearAllImages(TRUE)

ImageSpec == ImageInit /\ [][ImageNext]_vars

\* ------------------------------------------------------------ properties
\* number of events of job j in a sequence of events
CountJob(events, j) ==
    Cardinality({i \in 1..Len(events) : events[i].model_path = j})

\* events appended and not yet handed to a handler: between the snapshot
\* and the clear the snapshot is a prefix of the queue
InFlight ==
    IF t_pc = "clear" THEN pending_ui_updates
    ELSE updates_to_process \o pending_ui_updates

TimeoutStatus == "Generation timeout"
SaveFailedStatus == "Failed to save model"
Terminal == {"Completed", "Failed"}
Ended(j) == w_pc[j] \in {"after_loop", "enable", "done"}

\* C1: in every reachable state at most one generation worker is live
C1_AtMostOneWorker == Cardinality(LiveWorkers) <= 1

\* a second job runs after the first one has ended
C1_Witness == jobs_started = 2 /\ w_pc[1] = "done" /\ Live(2)

\* C2: every appended completion event is handed to processing exactly
\* once: at any time each event appended for a job is either still in
\* flight (queued or in the snapshot being processed) or was dispatched
\* once
C2_ExactlyOnce ==
    \A j \in Jobs : pushed[j] = dispatched[j] + CountJob(InFlight, j)

\* C3 as stated: every job whose status poll returned 'completed' enqueues
\* exactly one event
C3_Original ==
    \A j \in Jobs :
        (w_pc[j] = "enable" /\ poll_answer[j] = "completed") => pushed[j] = 1

\* C3 amended: a job whose poll returned 'completed' with model data that
\* decodes and is written has its file written and enqueues exactly one
\* event; a 'completed' answer without model data, or whose data cannot be
\* decoded or written, enqueues nothing; no job enqueues more than one
C3_OneEventPerSavedModel ==
    \A j \in Jobs :
        /\ pushed[j] <= 1
        /\ w_pc[j] = "list" => j \in model_files
        /\ (Ended(j) /\ poll_answer[j] = "completed") =>
              /\ pushed[j] = 1 <=>
                    (payload[j] = "ok" /\ job_msg[j] # SaveFailedStatus)
              /\ payload[j] = "none" => job_msg[j] = "No model data received"
              /\ payload[j] = "bad" => job_msg[j] = SaveFailedStatus

\* a job got 'completed' with model data, saved it and enqueued its event
C3_Witness ==
    \E j \in Jobs :
        /\ w_pc[j] = "enable" /\ poll_answer[j] = "completed"
        /\ payload[j] = "ok" /\ pushed[j] = 1
        /\ CountJob(pending_ui_updates, j) = 1

\* C4: an event is enqueued only for a job that reached the terminal
\* success state; a job that ended Failed (server error, failed submit or
\* status request, exhausted poll budget) has appended nothing
C4_EventsOnlyForSuccess ==
    \A j \in Jobs :
        /\ pushed[j] > 0 =>
              /\ job_state[j] = "Completed"
              /\ Live(j) => /\ submit_answer[j] = "ok"
                            /\ poll_answer[j] = "completed"
        /\ job_state[j] = "Failed" =>
              /\ pushed[j] = 0
              /\ CountJob(pending_ui_updates, j) = 0
              /\ CountJob(updates_to_process, j) = 0

\* one job ran out of poll budget and ended without an event while the
\* event of another job is queued
C4_Witness ==
    \E j, k \in Jobs :
        /\ job_msg[j] = TimeoutStatus /\ w_pc[j] = "enable" /\ pushed[j] = 0
        /\ CountJob(pending_ui_updates, k) = 1

\* C5: no job performs more than max_attempts (120) status requests
C5_PollBudget == \A j \in Jobs : polls[j] <= max_attempts

\* a job has sent its 120th status request
C5_Witness == \E j \in Jobs : polls[j] = max_attempts

\* C6 as stated: after 120 polls, all non-terminal gives Failed with the
\* timeout reason and no event; a 120th poll returning 'completed' gives
\* Completed
C6_Original ==
    \A j \in Jobs :
        (w_pc[j] = "enable" /\ polls[j] = max_attempts) =>
            /\ poll_answer[j] \in NonTerminalStatuses =>
                  /\ job_state[j] = "Failed"
                  /\ job_msg[j] = TimeoutStatus
                  /\ pushed[j] = 0
            /\ poll_answer[j] = "completed" => job_state[j] = "Completed"

\* C6 amended: after 120 polls, all non-terminal gives Failed with the
\* timeout reason and no event, and only such a job is timed out; a 120th
\* poll returning 'completed' never times out: the job ends Completed when
\* the answer carries model data that is saved, and Failed with the
\* no-data or save-failure message otherwise
C6_TimeoutOnlyOnExhaustion ==
    \A j \in Jobs :
        /\ (w_pc[j] = "enable" /\ polls[j] = max_attempts) =>
              /\ poll_answer[j] \in NonTerminalStatuses =>
                    /\ job_state[j] = "Failed"
                    /\ job_msg[j] = TimeoutStatus
                    /\ pushed[j] = 0
              /\ poll_answer[j] = "completed" =>
                    /\ job_msg[j] # TimeoutStatus
                    /\ job_state[j] = "Completed" <=>
                          (payload[j] = "ok" /\ job_msg[j] # SaveFailedStatus)
                    /\ job_state[j] = "Failed" =>
                          job_msg[j] \in {"No model data received",
                                          SaveFailedStatus}
        /\ job_msg[j] = TimeoutStatus =>
              /\ job_state[j] = "Failed"
              /\ poll_answer[j] \in NonTerminalStatuses
              /\ pushed[j] = 0

\* one job failed, another used its whole poll budget on non-terminal
\* answers and timed out
C6_Witness ==
    \E j, k \in Jobs :
        /\ job_state[j] = "Failed" /\ w_pc[j] = "done"
        /\ w_pc[k] = "enable" /\ polls[k] = max_attempts
        /\ poll_answer[k] \in NonTerminalStatuses
        /\ job_msg[k] = TimeoutStatus /\ pushed[k] = 0

\* a submit or status request of job j failed
RequestFailed(j) ==
    submit_answer[j] \in SubmitFailures \/ poll_answer[j] \in PollFailures

\* C7: a failed submit or status request ends the job Failed with the
\* status message of the failure, and no further request is sent for the
\* job (the failed call is not retried)
C7_ErrorsTerminate ==
    /\ [](\A j \in Jobs :
            /\ sends[j] <= 1
            /\ RequestFailed(j) =>
                  /\ job_state[j] = "Failed"
                  /\ Ended(j)
                  /\ job_msg[j] =
                        IF submit_answer[j] \in SubmitFailures
                        THEN SubmitFailureStatus(submit_answer[j])
                        ELSE PollFailureStatus(poll_answer[j]))
    /\ [][\A j \in Jobs :
            RequestFailed(j) =>
                (sends'[j] <= sends[j] /\ polls'[j] <= polls[j])]_vars

\* a job whose submit failed is about to end, having sent one request
C7_Witness ==
    \E j \in Jobs :
        /\ submit_answer[j] \in SubmitFailures /\ w_pc[j] = "enable"
        /\ sends[j] = 1 /\ polls[j] = 0 /\ job_state[j] = "Failed"

\* C8 as stated: after a failed status check the loop goes on, and the job
\* ends Failed for that reason only by exhausting the budget
C8_Original ==
    \A j \in Jobs :
        poll_answer[j] \in PollFailures =>
            (w_pc[j] = "poll" \/ job_msg[j] = TimeoutStatus)

\* C8 amended: a failed status check (non-200 response or exception of the
\* request) ends the job at once, Failed with the message of the failure;
\* only a 200 answer with a non-terminal or unrecognised status is treated
\* as "still running": the loop counts the attempt and goes on
C8_FailedCheckAborts ==
    /\ [](\A j \in Jobs :
            poll_answer[j] \in PollFailures =>
                /\ w_pc[j] # "poll"
                /\ job_state[j] = "Failed"
                /\ job_msg[j] = PollFailureStatus(poll_answer[j]))
    /\ [][\A j \in Jobs :
            (polls'[j] = polls[j] + 1) =>
                IF poll_answer'[j] \in NonTerminalStatuses
                THEN /\ w_pc'[j] = "poll"
                     /\ attempt'[j] = attempt[j] + 1
                     /\ job_state'[j] = "Polling"
                ELSE w_pc'[j] # "poll"]_vars

\* a job that was still running after one check is aborted by the failure
\* of its next check
C8_Witness ==
    \E j \in Jobs :
        /\ poll_answer[j] \in PollFailures /\ attempt[j] >= 1
        /\ w_pc[j] = "enable" /\ job_state[j] = "Failed"

RejectedRequest ==
    selected_image_path = NoImage \/ selected_image_path \notin image_files

\* C9: a generation request with no image selected, or with a selected
\* image whose file no longer exists, starts no worker, sends no request,
\* leaves the trigger enabled and changes nothing but the status message
C9_RejectedRequest ==
    [][(Generate3dModel /\ RejectedRequest) =>
          /\ status_text' = IF selected_image_path = NoImage
                            THEN "No image selected for generation"
                            ELSE "Selected image file not found"
          /\ generate_btn_enabled'
          /\ UNCHANGED <<uploaded_images, selected_image_path,
                         generated_models, pending_ui_updates,
                         auto_load_to_stage, keep_glb_files,
                         apply_deformable_physics, apply_rigid_body_physics,
                         generate_btn_enabled, image_stack, models_stack,
                         image_files, model_files, stage_open, prims,
                         physx_available,
                         w_pc, attempt, model_base64, t_pc,
                         updates_to_process, jobs_started, job_state, polls,
                         sends, pushed, dispatched, job_msg, submit_answer,
                         poll_answer, payload>>]_vars

\* a request was rejected because the selected file is gone
C9_Witness ==
    /\ status_text = "Selected image file not found"
    /\ selected_image_path # NoImage
    /\ selected_image_path \notin image_files
    /\ generate_btn_enabled
    /\ LiveWorkers = {}

\* the job state machine of section 4.2: Submitting on the user request,
\* Polling on a successful submit, Failed on an error, Completed on success
JobEdges ==
    {<<"Idle", "Submitting">>, <<"Submitting", "Polling">>,
     <<"Submitting", "Failed">>, <<"Polling", "Completed">>,
     <<"Polling", "Failed">>}

\* C10: a job moves only along Idle -> Submitting -> Polling ->
\* {Completed | Failed} (Failed is entered from Submitting when the submit
\* fails), every started job eventually reaches Completed or Failed, every
\* exit of the worker leaves the trigger enabled with the job terminal, and
\* a disabled trigger is eventually enabled again
C10_JobProgress ==
    /\ [][\A j \in Jobs :
            job_state'[j] # job_state[j] =>
                <<job_state[j], job_state'[j]>> \in JobEdges]_vars
    /\ [][\A j \in Jobs :
            (Live(j) /\ w_pc'[j] = "done") =>
                (generate_btn_enabled' /\ job_state'[j] \in Terminal)]_vars
    /\ \A j \in Jobs :
            (job_state[j] \in {"Submitting", "Polling"})
                ~> (job_state[j] \in Terminal)
    /\ (~generate_btn_enabled) ~> generate_btn_enabled

\* a job ran to Completed, its worker has ended and the trigger is enabled
C10_Witness ==
    \E j \in Jobs :
        /\ w_pc[j] = "done" /\ job_state[j] = "Completed"
        /\ generate_btn_enabled

\* a step of the worker thread of some job
WorkerStep == \E j \in Jobs : Worker(j, max_attempts)

\* a step that runs an import on the UI thread: the drain tick handling an
\* event, or the user's "Load to Stage"
UiImportStep == TickProcess \/ \E p \in Jobs : LoadToStage(p)

\* the stage or the node data changes, or an asset file is deleted
SceneMutation == prims' # prims \/ ~(model_files \subseteq model_files')

\* the job that SceneSpec runs
LastJob == MaxJobs

\* C11: the worker thread never mutates the scene graph: no step of a
\* worker creates a node, writes a node's reference, transform or physics,
\* or deletes an asset file; every such change is made by a step of the UI
\* thread (the drain tick or the user's import)
C11_SceneOnUiThread ==
    [][/\ WorkerStep => (UNCHANGED <<prims, stage_open>>
                         /\ model_files \subseteq model_files')
       /\ SceneMutation => (UiImportStep /\ ~WorkerStep)]_vars

\* while the worker of the last job is still running, the stage holds a
\* node with rigid-body physics that the user imported from an earlier
\* model, and that model's file was deleted by the import
C11_Witness ==
    /\ Live(LastJob)
    /\ w_pc[LastJob] = "poll"
    /\ \E p \in DOMAIN prims :
          /\ prims[p].reference \in EarlierJobs
          /\ prims[p].rigid_body
          /\ prims[p].reference \notin model_files

\* C12: the only state the worker writes and the UI thread reads or writes
\* is the completion queue and the status fields: a step of the worker
\* leaves the generated-model list, the trigger's enabled flag and every
\* other field of the UI thread unchanged
C12_WorkerWritesQueueOnly ==
    [][WorkerStep =>
          UNCHANGED <<generated_models, generate_btn_enabled,
                      uploaded_images, selected_image_path, image_stack,
                      models_stack, auto_load_to_stage, keep_glb_files,
                      apply_deformable_physics, apply_rigid_body_physics,
                      prims, t_pc, updates_to_process>>]_vars

\* the drain hands the auto-load event of a model to its handler
AutoLoadDispatch(model_path) ==
    /\ TickProcess
    /\ Head(updates_to_process) = CompletionEvent(TRUE, model_path)

\* the drain hands the plain model-ready event of a model to its handler
AddModelDispatch(model_path) ==
    /\ TickProcess
    /\ Head(updates_to_process) = CompletionEvent(FALSE, model_path)

\* a step that calls _load_glb_to_stage for a model
GlbImport(model_path) ==
    AutoLoadDispatch(model_path) \/ LoadToStage(model_path)

\* the step created a node
NodeCreated == DOMAIN prims' # DOMAIN prims

\* the nodes that refer to a file
NodesOf(reference, nodes) ==
    {p \in DOMAIN nodes : nodes[p].reference = reference}

ImportStatuses ==
    {"No USD stage available", "Failed to create prim",
     "Loaded to stage (file kept)", "Loaded to stage (file cleanup failed)",
     "Loaded to stage and cleaned up file"}

ImportAttempt ==
    \/ \E m \in Jobs : GlbImport(m)
    \/ /\ \E n \in ExternalNames : LoadExternalGlb(n)
       /\ status_text' # "Invalid GLB file path"

\* the names an import may start from
BaseNames == {BaseName(m) : m \in Jobs} \cup ExternalNames

\* the path is the first free candidate of the name among the valid paths
FirstFree(path, base_name, valid) ==
    \/ path = base_name
    \/ /\ base_name \in valid
       /\ \E k \in 1..Cardinality(valid) :
             /\ path = base_name \o <<k>>
             /\ \A d \in 1..(k - 1) : base_name \o <<d>> \in valid

\* C14: every import that creates a node creates exactly one, at a path
\* that was not a valid node before: the name itself or, on collision, the
\* name with the first numeric suffix that is free; the nodes that were
\* there keep their path and their data, so the imported nodes have
\* pairwise distinct paths
C14_UniquePrimPaths ==
    [][/\ (ImportAttempt /\ stage_open /\
             status_text' # "Failed to create prim") => NodeCreated
       /\ prims' # prims =>
             /\ ImportAttempt
             /\ \E p \in DOMAIN prims' :
                   /\ p \notin DOMAIN prims
                   /\ DOMAIN prims' = DOMAIN prims \cup {p}
                   /\ \E b \in BaseNames : FirstFree(p, b, DOMAIN prims)
             /\ \A q \in DOMAIN prims : prims'[q] = prims[q]]_vars

\* a user loaded external files under a model's base name and under that
\* name with suffix 1; the model's own import then went to suffix 2
C14_Witness ==
    /\ {<<1>>, <<1, 1>>, <<1, 2>>} \subseteq DOMAIN prims
    /\ prims[<<1>>].reference = ExternalGlb
    /\ prims[<<1, 1>>].reference = ExternalGlb
    /\ prims[<<1, 2>>].reference = 1

\* C15: an import attempted with no stage open fails and leaves the state
\* as it was: no node is created, no asset file is deleted, and the
\* generated-model list and its rows are unchanged
C15_NoStageNoChange ==
    [][(ImportAttempt /\ ~stage_open) =>
          /\ status_text' = "No USD stage available"
          /\ UNCHANGED <<prims, model_files, generated_models,
                         models_stack, stage_open>>]_vars

\* the drain ran the import of an auto-load event with no stage open: the
\* event is consumed, the file and the list entry are still there
C15_Witness ==
    \E m \in Jobs :
        /\ ~stage_open /\ status_text = "No USD stage available"
        /\ dispatched[m] = 1
        /\ m \in model_files /\ m \in Range(generated_models)
        /\ prims = <<>>

\* C16 as stated: after a successful import through _load_glb_to_stage,
\* without 'keep' the file is gone and its path is not listed, with 'keep'
\* the file and the list are as before
C16_Original ==
    [][\A m \in Jobs :
          (GlbImport(m) /\ NodeCreated) =>
              IF keep_glb_files
              THEN UNCHANGED <<model_files, generated_models>>
              ELSE /\ m \notin model_files'
                   /\ m \notin Range(generated_models')]_vars

\* C16 amended: after a successful import through _load_glb_to_stage, with
\* 'keep' as it is set when the import runs: with 'keep' the files and the
\* list are unchanged; without 'keep', when the deletion succeeds the file
\* is gone and its path is not listed, and when the deletion fails (the
\* import reports 'file cleanup failed') the files and the list are left
\* as they were
C16_KeepOrDelete ==
    [][\A m \in Jobs :
          (GlbImport(m) /\ NodeCreated) =>
              IF keep_glb_files
              THEN /\ UNCHANGED <<model_files, generated_models>>
                   /\ status_text' = "Loaded to stage (file kept)"
              ELSE IF status_text' = "Loaded to stage (file cleanup failed)"
              THEN UNCHANGED <<model_files, generated_models>>
              ELSE /\ m \in model_files
                   /\ model_files' = model_files \ {m}
                   /\ m \notin Range(generated_models')
                   /\ status_text' = "Loaded to stage and cleaned up file"]_vars

\* 'keep' was switched on after the events were queued: one model was
\* imported with its file kept and listed, and another model had been
\* imported before with its file deleted and its list entry removed
C16_Witness ==
    \E m, n \in Jobs :
        /\ keep_glb_files
        /\ status_text = "Loaded to stage (file kept)"
        /\ NodesOf(m, prims) # {} /\ m \in model_files
        /\ m \in Range(generated_models)
        /\ NodesOf(n, prims) # {} /\ n \notin model_files
        /\ n \notin Range(generated_models)

\* lines 165-169 and 322: the deformable option is set only through a
\* checkbox that exists only when the physics toolkit was imported
DeformableNeedsToolkit == apply_deformable_physics => physx_available

\* what a loop over the meshes must give when no failure stops it: every
\* mesh attempted, every mesh outside fails attached and counted, and the
\* count reported as succeeded/attempted when some mesh succeeded
EveryMeshAttempted(call, attached, fails) ==
    LET succeeded == (1..attach.meshes) \ fails
    IN /\ call.attempted = attach.meshes
       /\ attached = succeeded
       /\ call.success_count = Cardinality(succeeded)
       /\ succeeded # {} =>
             call.report = <<Cardinality(succeeded), attach.meshes>>

\* C18: in both attachment functions a failure on one mesh does not stop
\* the loop: every mesh found under the node is attempted, every mesh whose
\* attachment does not raise gets its collider (its deformable body), and
\* the outcome reports succeeded/attempted; the function returns True when
\* some mesh succeeded
C18_FailureDoesNotStopAttachment ==
    /\ attach.rigid.called =>
          /\ EveryMeshAttempted(attach.rigid, attach.rigid.colliders,
                                attach.collider_fails)
          /\ attach.rigid.result
    /\ attach.deformable.called =>
          /\ EveryMeshAttempted(attach.deformable,
                                attach.deformable.deformables,
                                attach.deformable_fails)
          /\ attach.deformable.result =
                (attach.deformable.success_count > 0)

\* both functions have run over two meshes, the first of which failed in
\* each, and both report 1/2
C18_Witness ==
    /\ attach.meshes = 2
    /\ attach.collider_fails = {1}
    /\ attach.deformable_fails = {1}
    /\ attach.rigid.called /\ attach.rigid.colliders = {2}
    /\ attach.rigid.report = <<1, 2>>
    /\ attach.deformable.called /\ attach.deformable.deformables = {2}
    /\ attach.deformable.report = <<1, 2>>
    /\ attach.deformable.result

\* the scale computation has returned its dict for a measured height
\* current and a target height target
Returned(current, target) ==
    /\ scale_result.returned = "dict"
    /\ scale_result.current_height = current
    /\ scale_result.target_height = target

\* the worked example: target 2.0 m on a prim of 1.0 m gives the factor
\* 2.0 and scaled = true
ScaleExample ==
    Returned(GridPerMetre, 2 * GridPerMetre) =>
        /\ scale_result.scale_factor = FromInt(2)
        /\ scale_result.scaled

\* C19 as stated: for every target height h > 0 and measured height c > 0
\* the returned scale_factor is h / c, and c times the returned factor
\* equals h
C19_Original ==
    /\ \A c \in Heights : \A h \in Heights :
          Returned(c, h) =>
             /\ scale_result.scale_factor = Div(h, c)
             /\ Mul(c, scale_result.scale_factor) = FromInt(h)
    /\ ScaleExample

\* C19: for every target height h > 0 and measured height c > 0 the
\* returned scale_factor is the float h / c, and c times the returned
\* factor is h or one of the two floats next to h
C19_ScaleFactor ==
    /\ \A c \in Heights : \A h \in Heights :
          Returned(c, h) =>
             /\ scale_result.scale_factor = Div(h, c)
             /\ Mul(c, scale_result.scale_factor) \in
                   {NextDown(FromInt(h)), FromInt(h), NextUp(FromInt(h))}
    /\ ScaleExample

\* a prim of 11 grid steps has been scaled to 15: the factor times 11 is
\* the float just below 15
C19_Witness ==
    /\ Returned(11, 15)
    /\ scale_result.scaled
    /\ selected_prim.scale_op.exists
    /\ Mul(11, scale_result.scale_factor) = NextDown(FromInt(15))

\* a call of the scale computation on a measurable prim with a target
\* within the tolerance of its height
WithinToleranceCall(actual_height) ==
    /\ stage_open
    /\ selected_prim.bbox = "range"
    /\ selected_prim.dimensions[2] # Zero
    /\ WithinTolerance(selected_prim, actual_height, "Y")
    /\ ScaleSelectedPrim(actual_height, "Y")

RECURSIVE Around(_, _)
Around(x, n) ==
    IF n = 0 THEN {x}
    ELSE LET near == Around(x, n - 1)
         IN near \cup {NextUp(y) : y \in near} \cup {NextDown(y) : y \in near}

\* the scale computation has scaled the prim: it returned its dict with
\* scaled = true
HasScaled == scale_result.returned = "dict" /\ scale_result.scaled

\* one factor, the target over the extent along the chosen axis, has
\* multiplied the three components of the scale and the three extents, and
\* the products are the scale of the prim
OneFactorForAll ==
    /\ scale_result.scale_factor =
          Div(scale_result.target_height,
              Whole(scale_result.current_dimensions[
                        HeightIdx(scale_result.height_axis)]))
    /\ \A i \in 1..3 :
          /\ scale_result.new_scale[i] =
                MulF(scale_result.current_scale[i], scale_result.scale_factor)
          /\ scale_result.new_dimensions[i] =
                MulF(scale_result.current_dimensions[i],
                     scale_result.scale_factor)
    /\ selected_prim.scale_op =
          [exists |-> TRUE, value |-> scale_result.new_scale]

\* the ratio of components i and j is the same in the vectors before and
\* after: after[i] / after[j] = before[i] / before[j], as real numbers
SameRatio(before, after, i, j) ==
    Exact(after[i], before[j]) = Exact(before[i], after[j])

\* the same, up to the rounding of the four products involved
RoundedRatio(before, after, i, j) ==
    MulF(after[i], before[j]) \in Around(MulF(before[i], after[j]), 4)

\* the components of a vector that are not 0
Positive(v) == {i \in 1..3 : v[i] # Zero}

\* C21 as stated: a scaled prim has had the three components of its scale
\* multiplied by one factor whatever the axis, and the ratio of any two
\* extents and of any two scale components is the same before and after
C21_Original ==
    HasScaled =>
       /\ OneFactorForAll
       /\ \A i \in 1..3 : \A j \in 1..3 :
             SameRatio(scale_result.current_scale, scale_result.new_scale,
                       i, j)
       /\ \A i \in Positive(scale_result.current_dimensions) :
             \A j \in Positive(scale_result.current_dimensions) :
                SameRatio(scale_result.current_dimensions,
                          scale_result.new_dimensions, i, j)

\* C21: a scaled prim has had the three components of its scale multiplied
\* by one factor whatever the axis, each product rounded to a float: equal
\* components stay equal, and the ratio of any two extents and of any two
\* scale components is the same before and after up to that rounding
C21_UniformScaling ==
    HasScaled =>
       /\ OneFactorForAll
       /\ \A i \in 1..3 : \A j \in 1..3 :
             /\ scale_result.current_scale[i] = scale_result.current_scale[j]
                   => scale_result.new_scale[i] = scale_result.new_scale[j]
             /\ RoundedRatio(scale_result.current_scale,
                             scale_result.new_scale, i, j)
       /\ \A i \in Positive(scale_result.current_dimensions) :
             \A j \in Positive(scale_result.current_dimensions) :
                /\ scale_result.current_dimensions[i]
                      = scale_result.current_dimensions[j]
                      => scale_result.new_dimensions[i]
                            = scale_result.new_dimensions[j]
                /\ RoundedRatio(scale_result.current_dimensions,
                                scale_result.new_dimensions, i, j)

\* a box of 1 x 1 x 11 grid steps with the scale (1, 2, 3) has been scaled
\* to 15 grid steps along Z: its scale is (f, 2f, 3f rounded) for the one
\* factor f = 15 / 11, and 3f is no float, so the ratio of the first and
\* the third component is no longer 1 / 3
C21_Witness ==
    /\ HasScaled
    /\ scale_result.height_axis = "Z"
    /\ scale_result.target_height = 15
    /\ scale_result.current_dimensions = <<FromInt(1), FromInt(1), FromInt(11)>>
    /\ scale_result.current_scale = <<FromInt(1), FromInt(2), FromInt(3)>>
    /\ selected_prim.scale_op.value =
          <<Div(15, 11), MulF(FromInt(2), Div(15, 11)),
            MulF(FromInt(3), Div(15, 11))>>
    /\ ~SameRatio(scale_result.current_scale, scale_result.new_scale, 1, 3)

\* the bounding box of the selected prim has zero volume: it is empty or
\* has no extent along some axis
ZeroVolume ==
    \/ selected_prim.bbox = "empty"
    \/ \E i \in 1..3 : selected_prim.dimensions[i] = Zero

\* the bounding box of the selected prim is empty or has no extent along
\* the axis chosen as height
NoHeight(height_axis) ==
    \/ selected_prim.bbox = "empty"
    \/ selected_prim.dimensions[HeightIdx(height_axis)] = Zero

\* the call has returned the failure result and has left the prim as it
\* was
FailedWithoutWrite ==
    /\ scale_result' = None
    /\ scale_result_label' = "Failed to scale prim"
    /\ selected_prim' = selected_prim

\* C22 as stated: whenever the bounding box has zero volume, the scale
\* computation returns the failure result and does not write the scale
C22_Original ==
    [][\A actual_height \in BoxTargets : \A height_axis \in Axes :
          (ZeroVolume /\ stage_open
              /\ ScaleSelectedPrim(actual_height, height_axis))
             => FailedWithoutWrite]_vars

\* C22: whenever the bounding box is empty or has no extent along the axis
\* chosen as height, the scale computation returns the failure result and
\* does not write the scale; a box that is flat along another axis only is
\* scaled like any other unless it is within the tolerance of the target
C22_NoHeightFails ==
    [][\A actual_height \in BoxTargets : \A height_axis \in Axes :
          /\ (NoHeight(height_axis) /\ stage_open
                 /\ ScaleSelectedPrim(actual_height, height_axis))
                => FailedWithoutWrite
          /\ (ZeroVolume /\ ~NoHeight(height_axis) /\ stage_open
                 /\ ~WithinTolerance(selected_prim, actual_height, height_axis)
                 /\ ScaleSelectedPrim(actual_height, height_axis))
                => /\ scale_result'.returned = "dict"
                   /\ scale_result'.scaled
                   /\ selected_prim'.scale_op =
                         [exists |-> TRUE, value |-> scale_result'.new_scale]
                   /\ selected_prim'.writes = selected_prim.writes + 1]_vars

\* the scale computation has failed on a prim whose bounding box is a
\* single point, and the prim still has no scale operation
C22_Witness ==
    /\ scale_result = None
    /\ scale_result_label = "Failed to scale prim"
    /\ selected_prim.bbox = "range"
    /\ selected_prim.dimensions = <<Zero, Zero, Zero>>
    /\ ~selected_prim.scale_op.exists
    /\ selected_prim.writes = 0

\* C23: a call of _scale_selected_prim with a height field that is not
\* positive, on a selected prim of an open stage, shows "Failed: Height must
\* be > 0", does not call the scale computation (its last result stays what
\* it was) and leaves the prim, its scale included, as it was
C23_InvalidHeightRejected ==
    [][\A actual_height \in NotPositive :
          (stage_open /\ ScaleSelectedPrim(actual_height, "Y"))
             => /\ scale_result_label' = "Failed: Height must be > 0"
                /\ scale_result' = scale_result
                /\ selected_prim' = selected_prim]_vars

\* a measurable prim of 1.0 m was refused a height that is not positive
\* before the scale computation was ever called, and has no scale operation
C23_Witness ==
    /\ scale_result_label = "Failed: Height must be > 0"
    /\ scale_result = NoScaleCall
    /\ selected_prim = Prim(GridPerMetre, GridPerMetre, GridPerMetre, NoScaleOp)

\* a sequence without two equal entries
NoDuplicates(s) == \A i \in 1..Len(s) : \A j \in 1..Len(s) : s[i] = s[j] => i = j

\* the step is an upload: the list has grown by one entry
IsUpload == Len(uploaded_images') = Len(uploaded_images) + 1

\* C24: every upload is stored under the first of the names name, name_2,
\* name_3, ... that is not present in the images directory, no file that
\* was there is lost or overwritten by an upload, and the image list never
\* holds a path twice
C24_UniqueStorage ==
    [][/\ IsUpload =>
           LET dest_path == uploaded_images'[Len(uploaded_images')]
           IN /\ dest_path \notin image_files
              /\ \A c \in 1..(dest_path - 1) : c \in image_files
              /\ image_files' = image_files \cup {dest_path}
       /\ NoDuplicates(uploaded_images')]_vars

\* the part of C24 that holds: the name an upload is stored under
C24_FreshName ==
    [][IsUpload =>
          LET dest_path == uploaded_images'[Len(uploaded_images')]
          IN /\ dest_path \notin image_files
             /\ \A c \in 1..(dest_path - 1) : c \in image_files
             /\ image_files' = image_files \cup {dest_path}]_vars

\* C28: the selected image is none or a path of the image list
C28_SelectionListed ==
    \/ selected_image_path = NoImage
    \/ selected_image_path \in Range(uploaded_images)

\* the thread of job j has been started by the trigger and has not yet
\* read the selection (line 725)
AwaitsSelection(j) == w_pc[j] \in {"start", "convert"}

\* C27: from the trigger of a job until its thread reads the selection,
\* no step of the UI thread changes the image the thread will read and
\* send: neither the selection nor the presence of the selected file
C27_ImageFixedAtTrigger ==
    [][\A j \in Jobs :
          (AwaitsSelection(j) /\ w_pc'[j] = w_pc[j])
             => /\ selected_image_path' = selected_image_path
                /\ selected_image_path \in image_files
                      => selected_image_path \in image_files']_vars

\* C29: no event of a snapshot is lost by the loop of the frame callback:
\* at every step taken while the snapshot is processed, the events of a
\* job handed to a handler and those still to be processed add up to the
\* same number, so that a failure on one event leaves the others to be
\* dispatched
C29_RestOfSnapshotDispatched ==
    [][t_pc = "process" =>
          \A j \in Jobs :
             dispatched'[j] + CountJob(updates_to_process', j)
                = dispatched[j] + CountJob(updates_to_process, j)]_vars

\* the frame callback hands the auto-load event of job j to
\* _auto_load_model_to_stage in this step
AutoLoadStep(j) ==
    /\ t_pc = "process"
    /\ updates_to_process # <<>>
    /\ Head(updates_to_process) = CompletionEvent(TRUE, j)
    /\ dispatched'[j] = dispatched[j] + 1

\* C25: the automatic load of a generated model either creates its node on
\* the stage or, when it fails, adds the model to the rows of the model
\* list
C25_FailedAutoLoadListed ==
    [][\A j \in Jobs :
          AutoLoadStep(j) =>
             \/ DOMAIN prims' # DOMAIN prims
             \/ j \in Range(models_stack')]_vars

\* the last status request of job j was answered 'completed' or 'error'
TerminalAnswer(j) == poll_answer[j] \in {"completed", "error"}

\* C26: once a status request of a job was answered 'completed' or
\* 'error', no further status request is sent for the job and the job is
\* never given the timeout outcome; and a job that is Completed or Failed
\* stays so
C26_TerminalIsFinal ==
    [][\A j \in Jobs :
          /\ TerminalAnswer(j) =>
                /\ polls'[j] <= polls[j]
                /\ job_msg'[j] # TimeoutStatus
          /\ job_state[j] \in Terminal => job_state'[j] = job_state[j]]_vars

\* the last status request the budget allows was answered 'completed' or
\* 'error', and the job has left the loop with its outcome, which is not
\* the timeout
C26_Witness ==
    \E j \in Jobs :
        /\ TerminalAnswer(j)
        /\ polls[j] = max_attempts
        /\ w_pc[j] = "enable"
        /\ job_state[j] \in Terminal
        /\ job_msg[j] # TimeoutStatus

\* the thread of job j is saving its model: the answer 'completed' has
\* come with model data and the event is not yet appended
Saving(j) == w_pc[j] \in {"save", "list", "enqueue"}

\* C30: while a job saves its model and until its event is appended the
\* generate button is disabled; the event is appended when the file has
\* been written; and when the thread of a Completed job enables the
\* button, the event of the job has been appended
C30_EventBeforeEnable ==
    /\ [](\A j \in Jobs :
            /\ Saving(j) => ~generate_btn_enabled
            /\ job_state[j] = "Completed" => pushed[j] = 1)
    /\ [][\A j \in Jobs :
            /\ pushed'[j] = pushed[j] + 1 =>
                  (j \in model_files /\ ~generate_btn_enabled')
            /\ (w_pc[j] = "enable" /\ w_pc'[j] = "done"
                   /\ job_state[j] = "Completed")
                  => (pushed[j] = 1 /\ ~generate_btn_enabled
                         /\ generate_btn_enabled')]_vars

\* the thread of a Completed job has ended and enabled the button, with
\* the event of the job appended
C30_Witness ==
    \E j \in Jobs :
        /\ job_state[j] = "Completed"
        /\ w_pc[j] = "done"
        /\ pushed[j] = 1
        /\ generate_btn_enabled
=============================================================================
